---- MODULE Spec2Model ----
(***************************************************************************)
(* Bounded multi-round tool-orchestration loop of the course-materials RAG *)
(* chatbot: AIGenerator.generate_response and its helpers                  *)
(* (backend/ai_generator.py).  The completion service                      *)
(* (client.messages.create) and the tool manager (execute_tool) are        *)
(* external: every response, service failure and tool outcome is an input  *)
(* drawn from a small set.                                                 *)
(***************************************************************************)
EXTENDS Integers, Sequences, FiniteSets, TLC

\* ------------------------------------------------------------------ bounds
\* Largest round budget (max_rounds) a caller passes.
MaxBudget == 2
\* Largest number of content blocks in one completion-service response.
MaxBlocks == 2
\* Number of /api/query requests in flight at the same time.
NumRequests == 2

\* --------------------------------------------------------------- constants
\* Default of the max_rounds parameter.
DefaultMaxRounds == 2

\* The fixed message returned when final synthesis yields no text.
FallbackMessage == "I've searched through the course materials but need more tool calls to fully answer your question. Please try asking a more specific question, or break your question into smaller parts."

\* ------------------------------------------------------------ input values
TextBlock(t) == [type |-> "text", text |-> t]
\* A tool-invocation request.  Its input payload is a mapping of the
\* parameters the tool accepts, or is invalid for dispatch: not a mapping,
\* or a mapping with a parameter the tool does not accept.
ToolUseBlockWith(i, n, inp) ==
    [type |-> "tool_use", id |-> i, name |-> n, input |-> inp]
ToolUseBlock(i, n) == ToolUseBlockWith(i, n, "mapping")
InvalidInputs == {"not_a_mapping", "unexpected_parameter"}

Texts == {"alpha"}
ToolUses == {ToolUseBlock("toolu_1", "search_course_content"),
             ToolUseBlock("toolu_2", "get_course_outline")}
Blocks == {TextBlock(t) : t \in Texts} \cup ToolUses

Contents == UNION {[1..n -> Blocks] : n \in 0..MaxBlocks}
StopReasons == {"tool_use", "end_turn"}
Responses == [stop_reason : StopReasons, content : Contents]

\* Exceptions client.messages.create can raise: an API error (connection,
\* authentication, rate limit), or a ValueError (for instance the
\* UnicodeEncodeError of a request body that cannot be encoded).
ServiceErrors == {"APIError", "ValueError"}

ToolNames == {b.name : b \in ToolUses}

\* The tool_manager argument: None, or a manager whose execute_tool raises
\* for the tools named in failing and returns a string for the others.
NoManager == [given |-> FALSE, failing |-> {}]
ToolManagers == {NoManager} \cup [given : {TRUE}, failing : SUBSET ToolNames]

\* tool_manager.execute_tool(name, **input): a returned string or a raised
\* exception with its message.
ExecuteTool(mgr, name) ==
    IF name \in mgr.failing
    THEN [raised |-> TRUE, value |-> "boom"]
    ELSE [raised |-> FALSE, value |-> "tool output"]

\* The call of a tool_use block reaches tool_manager.execute_tool unless
\* unpacking its payload fails while the call is being built.
EntersManager(block) == block.input # "not_a_mapping"

\* A dispatch that takes every payload for a mapping the tool accepts.
DispatchUnchecked(mgr, block) == ExecuteTool(mgr, block.name)

\* The call tool_manager.execute_tool(block.name, **block.input): unpacking
\* a payload that is not a mapping raises a TypeError before the manager
\* is entered, a parameter the tool does not accept makes the tool's
\* execute raise one, and otherwise the manager's answer is the outcome.
Dispatch(mgr, block) ==
    IF ~EntersManager(block)
    THEN [raised |-> TRUE, value |-> "argument after ** must be a mapping"]
    ELSE IF block.input = "unexpected_parameter"
         THEN [raised |-> TRUE, value |-> "got an unexpected keyword argument"]
         ELSE ExecuteTool(mgr, block.name)

\* The tools argument: None, an empty list, or the list of definitions.
ToolsArgs == {[given |-> FALSE, defs |-> <<>>],
              [given |-> TRUE, defs |-> <<>>],
              [given |-> TRUE, defs |-> <<"search_course_content", "get_course_outline">>]}
\* Python truthiness of the tools argument (if tools:).
Truthy(tls) == tls.given /\ tls.defs # <<>>

Queries == {"What is prompt caching?"}

\* The static system prompt of the generator.
SYSTEM_PROMPT == "You are an AI assistant specialized in course materials and educational content with access to comprehensive tools for course information."

\* The conversation_history argument: None, an empty string, or a text.
NoHistory == [given |-> FALSE, text |-> ""]
Histories == {NoHistory,
              [given |-> TRUE, text |-> ""],
              [given |-> TRUE, text |-> "User: hello\nAssistant: hi"]}

\* The tools and the tool manager the RAG system passes on every query.
AllTools == [given |-> TRUE,
             defs |-> <<"search_course_content", "get_course_outline">>]
WorkingManager == [given |-> TRUE, failing |-> {}]
Budgets == 1..MaxBudget

\* ------------------------------------------------------------------- state
VARIABLES
    pc,            \* "idle" | "loop" | "final" | "returned" | "raised"
    max_rounds,    \* the round budget R of the call
    tools,         \* the tools argument
    tool_manager,  \* the tool_manager argument
    round_num,     \* loop variable of generate_response
    messages,      \* the conversation built by the loop
    outcome,       \* what generate_response returned or raised
    calls,         \* log: every client.messages.create request, in order
    replies,       \* log: what each of those calls returned or raised
    executed,      \* log: every tool manager operation invoked, in order
    conversation_history,  \* the conversation_history argument
    system_content,        \* the system instruction built for the call
    events,        \* log: calls, appended turns and tool executions, in order
    trail,         \* the source trail held by the tool manager's tools
    current,       \* the /api/query request being served, 0 when none
    served,        \* what each /api/query request was answered
    registry,      \* the names of the tools registered in a tool manager
    sessions,      \* the number of sessions the session manager has created
    session_id,    \* local variable session_id of query_documents
    frames,        \* the local variables of the calls made on one generator
    exchanges,     \* the answered queries the session manager keeps, in order
    user_query     \* the query of the request being served, "" when none

vars == <<pc, max_rounds, tools, tool_manager, round_num, messages, outcome,
          calls, replies, executed, conversation_history, system_content,
          events, trail, current, served, registry, sessions, session_id,
          frames, exchanges, user_query>>

NoOutcome == [kind |-> "none", value |-> ""]
Returned(v) == [kind |-> "return", value |-> v]
Raised(e) == [kind |-> "raise", value |-> e]

\* ----------------------------------------------------------- pure helpers
\* Index of the last text block at or after position i, 0 when none.
LastTextFrom(content, i) ==
    LET found == {j \in i..Len(content) : content[j].type = "text"}
    IN IF found = {} THEN 0
       ELSE CHOOSE j \in found : \A k \in found : k <= j

\* Index of the first text block of a content list, 0 when there is none.
RECURSIVE FirstTextFrom(_, _)
FirstTextFrom(content, i) ==
    IF i > Len(content) THEN 0
    ELSE IF content[i].type = "text" THEN i
    ELSE FirstTextFrom(content, i + 1)

\* Extraction that only looks at the first content block.
ExtractTextFirstBlockOnly(response) ==
    IF response.content = <<>> THEN Raised("ValueError")
    ELSE IF response.content[1].type = "text"
         THEN Returned(response.content[1].text)
         ELSE Raised("ValueError")

\* _extract_text_from_response: the text of the first text block, or a
\* ValueError when the content is empty or holds no text block.
ExtractText(response) ==
    IF response.content = <<>> THEN Raised("ValueError")
    ELSE LET i == FirstTextFrom(response.content, 1)
         IN IF i = 0 THEN Raised("ValueError")
            ELSE Returned(response.content[i].text)

\* An error text that leaves the tool's name out.
ToolResultContentNoName(block, out) ==
    IF out.raised
    THEN <<"Error executing tool: ", out.value>>
    ELSE <<out.value>>

\* The result of one dispatch: the tool's output, or the error text built
\* in the except branch.
ToolResultContent(block, out) ==
    IF out.raised
    THEN <<"Error executing tool ", block.name, ": ", out.value>>
    ELSE <<out.value>>

\* Tool execution whose error results lose the invocation identifier.
RECURSIVE ExecuteToolsFromNoIdOnError(_, _, _)
ExecuteToolsFromNoIdOnError(content, mgr, i) ==
    IF i > Len(content) THEN <<>>
    ELSE IF content[i].type = "tool_use"
         THEN LET out == Dispatch(mgr, content[i])
              IN <<[type |-> "tool_result",
                    tool_use_id |-> IF out.raised THEN "" ELSE content[i].id,
                    content |-> ToolResultContent(content[i], out)]>>
                 \o ExecuteToolsFromNoIdOnError(content, mgr, i + 1)
         ELSE ExecuteToolsFromNoIdOnError(content, mgr, i + 1)

\* Tool execution without the try around the dispatch: the first request
\* that raises ends the round's executions, and the results of the
\* requests before it are all that is left.
RECURSIVE ExecuteToolsFromAbortOnError(_, _, _)
ExecuteToolsFromAbortOnError(content, mgr, i) ==
    IF i > Len(content) THEN <<>>
    ELSE IF content[i].type = "tool_use"
         THEN LET out == Dispatch(mgr, content[i])
              IN IF out.raised THEN <<>>
                 ELSE <<[type |-> "tool_result", tool_use_id |-> content[i].id,
                         content |-> ToolResultContent(content[i], out)]>>
                      \o ExecuteToolsFromAbortOnError(content, mgr, i + 1)
         ELSE ExecuteToolsFromAbortOnError(content, mgr, i + 1)

\* _execute_tools: one tool_result per tool_use block, in content order.
RECURSIVE ExecuteToolsFrom(_, _, _)
ExecuteToolsFrom(content, mgr, i) ==
    IF i > Len(content) THEN <<>>
    ELSE IF content[i].type = "tool_use"
         THEN <<[type |-> "tool_result",
                 tool_use_id |-> content[i].id,
                 content |-> ToolResultContent(content[i],
                                              Dispatch(mgr, content[i]))]>>
              \o ExecuteToolsFrom(content, mgr, i + 1)
         ELSE ExecuteToolsFrom(content, mgr, i + 1)

\* Tool execution that puts each new result in front of the earlier ones.
RECURSIVE ExecuteToolsPrepending(_, _)
ExecuteToolsPrepending(content, mgr) ==
    IF content = <<>> THEN <<>>
    ELSE ExecuteToolsPrepending(Tail(content), mgr)
         \o ExecuteToolsFrom(<<Head(content)>>, mgr, 1)

ExecuteTools(content, mgr) == ExecuteToolsFrom(content, mgr, 1)

\* Dispatching that tries a tool a second time when it raised.
RECURSIVE DispatchesFromRetrying(_, _, _, _)
DispatchesFromRetrying(content, mgr, rnd, i) ==
    IF i > Len(content) THEN <<>>
    ELSE IF content[i].type = "tool_use" /\ EntersManager(content[i])
         THEN LET d == [op |-> "execute_tool", round |-> rnd,
                        id |-> content[i].id, name |-> content[i].name,
                        raised |-> Dispatch(mgr, content[i]).raised]
              IN (IF d.raised THEN <<d, d>> ELSE <<d>>)
                 \o DispatchesFromRetrying(content, mgr, rnd, i + 1)
         ELSE DispatchesFromRetrying(content, mgr, rnd, i + 1)

\* Dispatching that also resets the manager's sources after the round.
RECURSIVE DispatchesFromThenReset(_, _, _, _)
DispatchesFromThenReset(content, mgr, rnd, i) ==
    IF i > Len(content)
    THEN <<[op |-> "reset_sources", round |-> rnd, id |-> "", name |-> "",
            raised |-> FALSE]>>
    ELSE IF content[i].type = "tool_use" /\ EntersManager(content[i])
         THEN <<[op |-> "execute_tool", round |-> rnd, id |-> content[i].id,
                 name |-> content[i].name,
                 raised |-> Dispatch(mgr, content[i]).raised]>>
              \o DispatchesFromThenReset(content, mgr, rnd, i + 1)
         ELSE DispatchesFromThenReset(content, mgr, rnd, i + 1)

\* The tool manager operations _execute_tools invokes, in order: one
\* execute_tool per tool_use block whose call reaches the manager, and
\* nothing else.
RECURSIVE DispatchesFrom(_, _, _, _)
DispatchesFrom(content, mgr, rnd, i) ==
    IF i > Len(content) THEN <<>>
    ELSE IF content[i].type = "tool_use" /\ EntersManager(content[i])
         THEN <<[op |-> "execute_tool", round |-> rnd, id |-> content[i].id,
                 name |-> content[i].name,
                 raised |-> Dispatch(mgr, content[i]).raised]>>
              \o DispatchesFrom(content, mgr, rnd, i + 1)
         ELSE DispatchesFrom(content, mgr, rnd, i + 1)

\* The model the generator is constructed with.
ConfiguredModel == "claude-sonnet-4-20250514"

\* self.base_params, built once by __init__ and spread into every request.
BaseParams == [model |-> ConfiguredModel, temperature |-> 0, max_tokens |-> 1200]

\* A final synthesis that still executes the tools its response asks for.
FinalDispatchesExecuting(content, mgr, rnd) ==
    IF mgr.given THEN DispatchesFrom(content, mgr, rnd, 1) ELSE <<>>

\* The tool manager operations _final_synthesis invokes for the response
\* it got: none, whatever the response holds.
FinalDispatches(content, mgr, rnd) == <<>>

\* An in-loop request that offers the tools with the first call only.
LoopRequestToolsFirstCallOnly(msgs, tls, sys) ==
    [model |-> BaseParams.model, temperature |-> BaseParams.temperature,
     max_tokens |-> BaseParams.max_tokens,
     final |-> FALSE, messages |-> msgs, system |-> sys,
     tools |-> (Truthy(tls) /\ Len(msgs) = 1),
     tool_choice |-> (Truthy(tls) /\ Len(msgs) = 1)]

\* An in-loop request that sends the turns after the query only.
LoopRequestLastTurnsOnly(msgs, tls, sys) ==
    [model |-> BaseParams.model, temperature |-> BaseParams.temperature,
     max_tokens |-> BaseParams.max_tokens,
     final |-> FALSE,
     messages |-> IF Len(msgs) <= 1 THEN msgs ELSE SubSeq(msgs, 2, Len(msgs)),
     system |-> sys,
     tools |-> Truthy(tls), tool_choice |-> Truthy(tls)]

\* The request of an in-loop call: tools and tool_choice only if tools.
LoopRequest(msgs, tls, sys) ==
    [model |-> BaseParams.model, temperature |-> BaseParams.temperature,
     max_tokens |-> BaseParams.max_tokens,
     final |-> FALSE, messages |-> msgs, system |-> sys,
     tools |-> Truthy(tls), tool_choice |-> Truthy(tls)]

\* A final-synthesis request that still offers the tools.
FinalRequestWithTools(msgs, sys) ==
    [model |-> BaseParams.model, temperature |-> BaseParams.temperature,
     max_tokens |-> BaseParams.max_tokens,
     final |-> TRUE, messages |-> msgs, system |-> sys,
     tools |-> TRUE, tool_choice |-> TRUE]

\* A final-synthesis request built without the base parameters, so that
\* the service's own sampling defaults apply.
FinalRequestServiceDefaults(msgs, sys) ==
    [model |-> BaseParams.model, temperature |-> 1, max_tokens |-> 4096,
     final |-> TRUE, messages |-> msgs, system |-> sys,
     tools |-> FALSE, tool_choice |-> FALSE]

\* The request of the final-synthesis call: never tools nor tool_choice.
FinalRequest(msgs, sys) ==
    [model |-> BaseParams.model, temperature |-> BaseParams.temperature,
     max_tokens |-> BaseParams.max_tokens,
     final |-> TRUE, messages |-> msgs, system |-> sys,
     tools |-> FALSE, tool_choice |-> FALSE]

\* range(1, max_rounds + 1) has a next element after rnd.
HasNextRoundOffByOne(rnd, budget) == rnd + 1 <= budget + 1
HasNextRound(rnd, budget) == rnd + 1 <= budget

\* The test of the loop body: the response is handled as a tool round.
UsedToolsAnyStopReason(response, mgr) == mgr.given
\* A test of the loop body that forgets to ask for the tool manager.
UsedToolsWithoutManager(response, mgr) == response.stop_reason = "tool_use"
UsedTools(response, mgr) == response.stop_reason = "tool_use" /\ mgr.given

\* The try/except of _final_synthesis applied to what the call did: the
\* extracted text, the fallback message for a ValueError raised inside the
\* try block, any other exception propagated.
FinalSynthesisOutcomeNoExcept(reply) ==
    IF reply.raised THEN Raised(reply.exc) ELSE ExtractText(reply.response)
FinalSynthesisOutcome(reply) ==
    LET attempt == IF reply.raised THEN Raised(reply.exc)
                   ELSE ExtractText(reply.response)
    IN IF attempt.kind = "raise" /\ attempt.value = "ValueError"
       THEN Returned(FallbackMessage)
       ELSE attempt

\* A loop body that falls off its end when the response has no text.
LoopAnswerOutcomeNoResult(response) ==
    IF ExtractText(response).kind = "return" THEN ExtractText(response)
    ELSE NoOutcome

\* The return statement of the loop body: the extracted text, or the
\* extraction error, which nothing catches there.
LoopAnswerOutcomeWithFallback(response) ==
    FinalSynthesisOutcome([raised |-> FALSE, response |-> response])
LoopAnswerOutcome(response) == ExtractText(response)

\* A system instruction that appends the history without its heading.
BuildSystemContentNoHeading(history) ==
    IF history.given /\ history.text # ""
    THEN <<SYSTEM_PROMPT, history.text>>
    ELSE <<SYSTEM_PROMPT>>

\* _build_system_content: the prompt alone, or the prompt, the heading and
\* the history when the history is truthy.
BuildSystemContent(history) ==
    IF history.given /\ history.text # ""
    THEN <<SYSTEM_PROMPT, "\n\nPrevious conversation:\n", history.text>>
    ELSE <<SYSTEM_PROMPT>>

Event(kind, rnd, id) == [kind |-> kind, round |-> rnd, id |-> id]

\* Tool execution that starts every tool of the round before waiting for
\* any of them.
RECURSIVE ExecEventsAllStartedFirst(_, _, _)
ExecEventsAllStartedFirst(content, rnd, i) ==
    IF i > Len(content) THEN <<>>
    ELSE IF content[i].type = "tool_use"
         THEN <<Event("exec_start", rnd, content[i].id)>>
              \o ExecEventsAllStartedFirst(content, rnd, i + 1)
              \o <<Event("exec_end", rnd, content[i].id)>>
         ELSE ExecEventsAllStartedFirst(content, rnd, i + 1)

\* The for loop of _execute_tools: each execute_tool call returns (or its
\* exception is caught) before the next block is looked at.
RECURSIVE ExecEventsFrom(_, _, _)
ExecEventsFrom(content, rnd, i) ==
    IF i > Len(content) THEN <<>>
    ELSE IF content[i].type = "tool_use"
         THEN <<Event("exec_start", rnd, content[i].id),
                Event("exec_end", rnd, content[i].id)>>
              \o ExecEventsFrom(content, rnd, i + 1)
         ELSE ExecEventsFrom(content, rnd, i + 1)

\* The statements of a tool round in program order: the call, the
\* assistant turn, the tool executions, the tool-result turn if any.
ToolRoundEvents(content, rnd, tool_results) ==
    <<Event("call", rnd, ""), Event("assistant", rnd, "")>>
    \o ExecEventsFrom(content, rnd, 1)
    \o (IF tool_results # <<>> THEN <<Event("results", rnd, "")>> ELSE <<>>)

\* The attribution record a content search leaves, tagged with the request
\* and the invocation that produced it.
SourceRecord(owner, d) == [request |-> owner, round |-> d.round, id |-> d.id]

\* The effect of tool manager operations on the source trail: a content
\* search that returns overwrites it, reset_sources empties it, the
\* outline tool and a failed execution leave it alone.
RECURSIVE ApplyManagerOps(_, _, _)
ApplyManagerOps(tr, ops, owner) ==
    IF ops = <<>> THEN tr
    ELSE LET d == Head(ops)
             after == IF d.op = "reset_sources" THEN <<>>
                      ELSE IF d.op = "execute_tool"
                              /\ d.name = "search_course_content" /\ ~d.raised
                           THEN <<SourceRecord(owner, d)>>
                           ELSE tr
         IN ApplyManagerOps(after, Tail(ops), owner)

\* The /api/query requests in flight.
Requests == 1..NumRequests
\* A session identifier: the text a client sent, or the one the session
\* manager made for the n-th session it created.
ClientSession(text) == [text |-> text, n |-> 0]
CreatedSession(n) == [text |-> "session_", n |-> n]
\* The local variable session_id before the handler has set it.
NoSession == [text |-> "None", n |-> 0]

\* A request that has not been served yet.
Waiting ==
    [status |-> "waiting", answer |-> "", sources |-> <<>>,
     session_id |-> NoSession, detail |-> <<>>, endpoint |-> "",
     request_session |-> NoSession, created |-> 0, error |-> ""]

\* ----------------------------------------------------------------- actions
\* The calls of generate_response made side by side on one generator, and
\* the query each one is given.
Callers == {"first", "second"}
QueryOf(c) == IF c = "first" THEN "What is prompt caching?" ELSE "What is MCP?"

\* The local variables of a call that has not been entered.
NoFrame == [pc |-> "idle", max_rounds |-> 0, round_num |-> 0,
            messages |-> <<>>, authors |-> <<>>, sent |-> <<>>,
            outcome |-> NoOutcome, content |-> <<>>, at |-> 0,
            tool_results |-> <<>>]
NoFrames == [c \in Callers |-> NoFrame]

Init ==
    /\ pc = "idle"
    /\ max_rounds = DefaultMaxRounds
    /\ tools = [given |-> FALSE, defs |-> <<>>]
    /\ tool_manager = NoManager
    /\ round_num = 0
    /\ messages = <<>>
    /\ outcome = NoOutcome
    /\ calls = <<>>
    /\ replies = <<>>
    /\ executed = <<>>
    /\ conversation_history = NoHistory
    /\ system_content = <<>>
    /\ events = <<>>
    /\ trail = <<>>
    /\ current = 0
    /\ served = [r \in Requests |-> Waiting]
    /\ registry = {}
    /\ sessions = 0
    /\ session_id = NoSession
    /\ frames = NoFrames
    /\ exchanges = <<>>
    /\ user_query = ""

\* generate_response is entered: the system instruction is built and the
\* conversation starts with the query.
Start(query, budget, tls, mgr, history) ==
    /\ pc = "idle"
    /\ max_rounds' = budget
    /\ tools' = tls
    /\ tool_manager' = mgr
    /\ conversation_history' = history
    /\ system_content' = BuildSystemContent(history)
    /\ messages' = <<[role |-> "user", content |-> query]>>
    /\ round_num' = 1
    /\ pc' = "loop"
    /\ UNCHANGED <<frames, exchanges, outcome, calls, replies, executed, events, trail, registry>>

\* The completion call of an in-loop round raises.
LoopCallRaises(exc) ==
    /\ pc = "loop"
    /\ calls' = Append(calls, LoopRequest(messages, tools, system_content))
    /\ replies' = Append(replies, [raised |-> TRUE, exc |-> exc])
    /\ events' = Append(events, Event("call", round_num, ""))
    /\ outcome' = Raised(exc)
    /\ pc' = "raised"
    /\ UNCHANGED <<user_query, frames, exchanges, max_rounds, tools, tool_manager, round_num, messages, executed,
                   conversation_history, system_content, trail, current, served,
                   registry, sessions, session_id>>

\* An in-loop round whose response requests tools: the assistant turn, the
\* tool executions and the tool-result turn, then the next round or the
\* end of the range.
ToolRound(response) ==
    /\ pc = "loop"
    /\ UsedTools(response, tool_manager)
    /\ calls' = Append(calls, LoopRequest(messages, tools, system_content))
    /\ replies' = Append(replies, [raised |-> FALSE, response |-> response])
    /\ LET tool_results == ExecuteTools(response.content, tool_manager)
           withAssistant == Append(messages, [role |-> "assistant",
                                              content |-> response.content])
       IN /\ messages' = IF tool_results # <<>>
                         THEN Append(withAssistant, [role |-> "user",
                                                     content |-> tool_results])
                         ELSE withAssistant
          /\ events' = events \o ToolRoundEvents(response.content, round_num,
                                                  tool_results)
    /\ LET ops == DispatchesFrom(response.content, tool_manager, round_num, 1)
       IN /\ executed' = executed \o ops
          /\ trail' = ApplyManagerOps(trail, ops, current)
    /\ IF HasNextRound(round_num, max_rounds)
       THEN round_num' = round_num + 1 /\ pc' = "loop"
       ELSE round_num' = round_num /\ pc' = "final"
    /\ UNCHANGED <<user_query, frames, exchanges, max_rounds, tools, tool_manager, outcome,
                   conversation_history, system_content, current, served,
                   registry, sessions, session_id>>

\* An in-loop round whose response is treated as the final answer.
FinalAnswer(response) ==
    /\ pc = "loop"
    /\ ~UsedTools(response, tool_manager)
    /\ calls' = Append(calls, LoopRequest(messages, tools, system_content))
    /\ replies' = Append(replies, [raised |-> FALSE, response |-> response])
    /\ events' = Append(events, Event("call", round_num, ""))
    /\ outcome' = LoopAnswerOutcome(response)
    /\ pc' = IF LoopAnswerOutcome(response).kind = "return"
             THEN "returned" ELSE "raised"
    /\ UNCHANGED <<user_query, frames, exchanges, max_rounds, tools, tool_manager, round_num, messages, executed,
                   conversation_history, system_content, trail, current, served,
                   registry, sessions, session_id>>

\* _final_synthesis when the call returns a response.
FinalSynthesis(response) ==
    /\ pc = "final"
    /\ LET reply == [raised |-> FALSE, response |-> response]
       IN /\ replies' = Append(replies, reply)
          /\ outcome' = FinalSynthesisOutcome(reply)
          /\ pc' = IF FinalSynthesisOutcome(reply).kind = "return"
                   THEN "returned" ELSE "raised"
    /\ calls' = Append(calls, FinalRequest(messages, system_content))
    /\ events' = Append(events, Event("final_call", round_num + 1, ""))
    /\ LET ops == FinalDispatches(response.content, tool_manager, round_num + 1)
       IN /\ executed' = executed \o ops
          /\ trail' = ApplyManagerOps(trail, ops, current)
    /\ UNCHANGED <<user_query, frames, exchanges, max_rounds, tools, tool_manager, round_num, messages,
                   conversation_history, system_content, current, served,
                   registry, sessions, session_id>>

\* _final_synthesis when client.messages.create itself raises.
FinalSynthesisCallRaises(exc) ==
    /\ pc = "final"
    /\ LET reply == [raised |-> TRUE, exc |-> exc]
       IN /\ replies' = Append(replies, reply)
          /\ outcome' = FinalSynthesisOutcome(reply)
          /\ pc' = IF FinalSynthesisOutcome(reply).kind = "return"
                   THEN "returned" ELSE "raised"
    /\ calls' = Append(calls, FinalRequest(messages, system_content))
    /\ events' = Append(events, Event("final_call", round_num + 1, ""))
    /\ UNCHANGED <<user_query, frames, exchanges, max_rounds, tools, tool_manager, round_num, messages, executed,
                   conversation_history, system_content, trail, current, served,
                   registry, sessions, session_id>>

\* The responses the completion service gives while requests are served:
\* a content search is requested, the answer is given, nothing is, or a
\* tool request comes without text under a stop reason that ends the loop.
ApiResponses ==
    {[stop_reason |-> "tool_use",
      content |-> <<ToolUseBlock("toolu_1", "search_course_content")>>],
     [stop_reason |-> "end_turn", content |-> <<TextBlock("alpha")>>],
     [stop_reason |-> "end_turn", content |-> <<>>],
     [stop_reason |-> "end_turn",
      content |-> <<ToolUseBlock("toolu_1", "search_course_content")>>]}

\* RAGSystem.query after generate_response has returned: the sources it
\* reads from the tool manager.
SourcesRead(tr) == tr

\* A query that returns the sources and forgets to reset them.
TrailAfterQueryKept(tr, completed) == tr

\* RAGSystem.query: the trail is reset once the orchestration has
\* completed, and left as it is when generate_response raised.
TrailAfterQuery(tr, completed) == IF completed THEN <<>> ELSE tr

\* The session_id field of a request body: null, an empty string, or the
\* identifier of a session.
SessionInputs ==
    {NoSession, ClientSession(""), ClientSession("existing_session_123")}

\* Python truthiness of session_id (if not session_id:).
SessionGiven(sid) == sid # NoSession /\ sid.text # ""

\* A handler that makes a new session for every request.
SessionForAlwaysNew(sid, created) ==
    [id |-> CreatedSession(created + 1), created |-> created + 1]

\* The session the handler works with, and the number of sessions created
\* once it has chosen: the request's own when it has one, a new one from
\* session_manager.create_session() otherwise.
SessionFor(sid, created) ==
    IF SessionGiven(sid)
    THEN [id |-> sid, created |-> created]
    ELSE [id |-> CreatedSession(created + 1), created |-> created + 1]

\* Exceptions of the collaborators of the endpoints other than the
\* completion service: session manager, RAG system, course analytics.
SystemErrors ==
    {"RuntimeError", "AuthenticationError", "RateLimitError", "ChromaError"}

\* str(e) of the exceptions served requests end with.
ServiceMessage(exc) ==
    CASE exc = "APIError" -> "Connection error."
      [] exc = "ValueError" -> "bad request body"
      [] exc = "RuntimeError" -> "RAG system error"
      [] exc = "AuthenticationError" -> "API Error: Invalid API key"
      [] exc = "RateLimitError"
         -> "Error code: 429 - rate_limit_error: Rate limit exceeded"
      [] exc = "ChromaError" -> "Could not connect to a Chroma server"

\* repr of the list of block types, as the f-string formats it.
RECURSIVE QuotedTypes(_, _)
QuotedTypes(content, i) ==
    IF i > Len(content) THEN ""
    ELSE (IF i > 1 THEN ", " ELSE "") \o "'" \o content[i].type \o "'"
         \o QuotedTypes(content, i + 1)

\* The message of the ValueError of _extract_text_from_response.
ExtractionMessage(response) ==
    IF response.content = <<>>
    THEN "Response contains no content blocks"
    ELSE "No text content found in response. "
         \o "Stop reason: " \o response.stop_reason \o ", "
         \o "Content blocks: [" \o QuotedTypes(response.content, 1) \o "]"

\* phrase in msg: the phrase is a substring of the message.
IsIn(phrase, msg) ==
    \E i \in 1..(Len(msg) - Len(phrase) + 1) :
        SubSeq(msg, i, i + Len(phrase) - 1) = phrase

\* str.lower() of one character.
LowerChar(ch) ==
    CASE ch = "A" -> "a" [] ch = "B" -> "b" [] ch = "C" -> "c"
      [] ch = "D" -> "d" [] ch = "E" -> "e" [] ch = "F" -> "f"
      [] ch = "G" -> "g" [] ch = "H" -> "h" [] ch = "I" -> "i"
      [] ch = "J" -> "j" [] ch = "K" -> "k" [] ch = "L" -> "l"
      [] ch = "M" -> "m" [] ch = "N" -> "n" [] ch = "O" -> "o"
      [] ch = "P" -> "p" [] ch = "Q" -> "q" [] ch = "R" -> "r"
      [] ch = "S" -> "s" [] ch = "T" -> "t" [] ch = "U" -> "u"
      [] ch = "V" -> "v" [] ch = "W" -> "w" [] ch = "X" -> "x"
      [] ch = "Y" -> "y" [] ch = "Z" -> "z" [] OTHER -> ch

\* phrase in msg.lower(), for a phrase in lower case: the phrase is met
\* at some position of the message, character by character, once the
\* message's characters are put in lower case.
IsInLower(phrase, msg) ==
    \E i \in 1..(Len(msg) - Len(phrase) + 1) :
        \A j \in 1..Len(phrase) :
            LowerChar(SubSeq(msg, i + j - 1, i + j - 1)) = SubSeq(phrase, j, j)

\* The phrases query_documents looks for that a message contains: "API
\* key", "No text content found" and "list index out of range" in the
\* message as it is, the others in the message in lower case.
KeywordsOf(msg) ==
    {p \in {"API key", "No text content found", "list index out of range"} :
        IsIn(p, msg)}
    \cup {p \in {"authentication", "vector store", "chroma", "rate limit"} :
            IsInLower(p, msg)}

\* The detail of the HTTP 500 answer, chosen from the error message.
ErrorDetail(msg) ==
    IF "API key" \in KeywordsOf(msg) \/ "authentication" \in KeywordsOf(msg)
    THEN <<"Authentication error: Please check your Anthropic API key in the .env file">>
    ELSE IF "vector store" \in KeywordsOf(msg) \/ "chroma" \in KeywordsOf(msg)
    THEN <<"Database error: Unable to search course content">>
    ELSE IF "rate limit" \in KeywordsOf(msg)
    THEN <<"Rate limit exceeded: Please try again in a moment">>
    ELSE IF "No text content found" \in KeywordsOf(msg)
            \/ "list index out of range" \in KeywordsOf(msg)
    THEN <<"Response processing error: The AI returned an unexpected response format. Please try rephrasing your question.">>
    ELSE <<"An error occurred while processing your query: ", msg>>

\* The details of the messages the served requests can end with, worked
\* out once.
KnownMessages ==
    {ServiceMessage(e) : e \in SystemErrors \cup ServiceErrors}
    \cup {ExtractionMessage(r) : r \in ApiResponses}
KnownDetails == [msg \in KnownMessages |-> ErrorDetail(msg)]
DetailFor(msg) ==
    IF msg \in KnownMessages THEN KnownDetails[msg] ELSE ErrorDetail(msg)

\* A handler whose except clause only catches ValueError: any other
\* exception leaves the endpoint.
HttpErrorValueErrorOnly(exc, detail) ==
    [status |-> IF exc = "ValueError" THEN "500" ELSE "escaped",
     answer |-> "", sources |-> <<>>, session_id |-> NoSession,
     detail |-> detail]

\* except Exception: raise HTTPException(status_code=500, detail=detail).
HttpError(exc, detail) ==
    [status |-> "500", answer |-> "", sources |-> <<>>,
     session_id |-> NoSession, detail |-> detail]

\* return QueryResponse(answer, sources, session_id).
QueryResponse(answer, sources, sid) ==
    [status |-> "200", answer |-> answer, sources |-> sources,
     session_id |-> sid, detail |-> <<>>]

\* return CourseStats(total_courses, course_titles).
CourseStats ==
    [status |-> "200", answer |-> "", sources |-> <<>>,
     session_id |-> NoSession, detail |-> <<>>]

\* What a request is answered together with what happened while it was
\* served: the endpoint, the session_id of the request, the sessions
\* created for it and the exception raised, "" when none was.
Served(reply, endpoint, sid, created, error) ==
    [status |-> reply.status, answer |-> reply.answer,
     sources |-> reply.sources, session_id |-> reply.session_id,
     detail |-> reply.detail, endpoint |-> endpoint,
     request_session |-> sid, created |-> created, error |-> error]

\* The prompt RAGSystem.query builds from the user's query and gives to
\* generate_response as its query.
RagPrompt(q) == "Answer this question about course materials: " \o q

\* The number of exchanges of a session the session manager keeps.
MAX_HISTORY == 2

\* session_manager.add_exchange(session_id, query, answer), called by
\* RAGSystem.query once generate_response has returned.
AddExchange(exch, sid, query, answer) ==
    Append(exch, [session |-> sid, query |-> query, answer |-> answer])

\* The exchanges of a session as one text, a line for the query and a
\* line for the answer of each.
RECURSIVE FormatExchanges(_)
FormatExchanges(exch) ==
    IF exch = <<>> THEN ""
    ELSE "User: " \o Head(exch).query \o "\nAssistant: " \o Head(exch).answer
         \o (IF Len(exch) > 1 THEN "\n" ELSE "")
         \o FormatExchanges(Tail(exch))

\* session_manager.get_conversation_history(session_id): None for a
\* session without exchanges, else the text of its last exchanges.
HistoryOf(sid, exch) ==
    LET mine == SelectSeq(exch, LAMBDA x : x.session = sid)
        kept == IF Len(mine) > MAX_HISTORY
                THEN SubSeq(mine, Len(mine) - MAX_HISTORY + 1, Len(mine))
                ELSE mine
    IN IF kept = <<>> THEN NoHistory
       ELSE [given |-> TRUE, text |-> FormatExchanges(kept)]

\* The message of the exception generate_response ended with.
FailureMessage ==
    IF replies[Len(replies)].raised
    THEN ServiceMessage(replies[Len(replies)].exc)
    ELSE ExtractionMessage(replies[Len(replies)].response)

\* query_documents starts serving request r: the session is chosen, and
\* rag_system.query calls generate_response with the tool definitions and
\* the tool manager of the one RAG system of the application.  The
\* endpoint is a coroutine without an await, so a request is served only
\* when no other one is being served.
BeginQuery(r) ==
    /\ current = 0
    /\ served[r].status = "waiting"
    /\ \E sid \in SessionInputs :
           /\ \E q \in Queries :
                  /\ user_query' = q
                  /\ Start(RagPrompt(q), DefaultMaxRounds, AllTools,
                           WorkingManager,
                           HistoryOf(SessionFor(sid, sessions).id, exchanges))
           /\ session_id' = SessionFor(sid, sessions).id
           /\ sessions' = SessionFor(sid, sessions).created
           /\ served' = [served EXCEPT ![r] =
                  [@ EXCEPT !.status = "running", !.endpoint = "/api/query",
                            !.request_session = sid,
                            !.created = SessionFor(sid, sessions).created
                                        - sessions]]
    /\ current' = r

\* query_documents fails before generate_response is called: in
\* create_session, or in rag_system.query itself.
QueryFailsEarly(r) ==
    /\ current = 0
    /\ served[r].status = "waiting"
    /\ pc = "idle"
    /\ \E sid \in SessionInputs, exc \in SystemErrors,
          at \in {"create_session", "query"} :
           /\ at = "create_session" => ~SessionGiven(sid)
           /\ sessions' = IF at = "query"
                          THEN SessionFor(sid, sessions).created ELSE sessions
           /\ served' = [served EXCEPT ![r] =
                  Served(HttpError(exc, DetailFor(ServiceMessage(exc))),
                         "/api/query", sid, sessions' - sessions, exc)]
    /\ UNCHANGED <<user_query, frames, exchanges, pc, max_rounds, tools, tool_manager, round_num, messages,
                   outcome, calls, replies, executed, conversation_history,
                   system_content, events, trail, current, registry,
                   session_id>>

\* generate_response has ended: the answer and the sources are returned
\* with status 200, or the exception becomes an HTTP 500.
EndQuery ==
    /\ current # 0
    /\ pc \in {"returned", "raised"}
    /\ served' = [served EXCEPT ![current] =
           Served(IF pc = "returned"
                  THEN QueryResponse(outcome.value, SourcesRead(trail),
                                     session_id)
                  ELSE HttpError(outcome.value, DetailFor(FailureMessage)),
                  "/api/query", @.request_session, @.created,
                  IF pc = "raised" THEN outcome.value ELSE "")]
    /\ trail' = TrailAfterQuery(trail, pc = "returned")
    /\ exchanges' = IF pc = "returned"
                    THEN AddExchange(exchanges, session_id, user_query,
                                     outcome.value)
                    ELSE exchanges
    /\ current' = 0
    /\ user_query' = ""
    /\ session_id' = NoSession
    /\ pc' = "idle"
    /\ round_num' = 0
    /\ messages' = <<>>
    /\ outcome' = NoOutcome
    /\ calls' = <<>>
    /\ replies' = <<>>
    /\ executed' = <<>>
    /\ events' = <<>>
    /\ UNCHANGED <<frames, max_rounds, tools, tool_manager, conversation_history,
                   system_content, registry, sessions>>

\* get_course_stats serves request r: the analytics are returned, or
\* get_course_analytics raises.
GetCourseStats(r) ==
    /\ current = 0
    /\ served[r].status = "waiting"
    /\ pc = "idle"
    /\ \E failed \in BOOLEAN, exc \in SystemErrors :
           served' = [served EXCEPT ![r] =
               Served(IF failed
                      THEN HttpError(exc, <<ServiceMessage(exc)>>)
                      ELSE CourseStats,
                      "/api/courses", NoSession, 0,
                      IF failed THEN exc ELSE "")]
    /\ UNCHANGED <<user_query, frames, exchanges, pc, max_rounds, tools, tool_manager, round_num, messages,
                   outcome, calls, replies, executed, conversation_history,
                   system_content, events, trail, current, registry,
                   sessions, session_id>>

NextApi ==
    \/ \E r \in Requests : BeginQuery(r)
    \/ \E r \in Requests : QueryFailsEarly(r)
    \/ \E r \in Requests : GetCourseStats(r)
    \/ \E e \in ServiceErrors : LoopCallRaises(e)
    \/ \E r \in ApiResponses : ToolRound(r)
    \/ \E r \in ApiResponses : FinalAnswer(r)
    \/ \E r \in ApiResponses : FinalSynthesis(r)
    \/ \E e \in ServiceErrors : FinalSynthesisCallRaises(e)
    \/ EndQuery

SpecApi == Init /\ [][NextApi]_vars

\* The responses text extraction is applied to: two different texts, tool
\* requests, any stop reason.
ExtractBlocks == Blocks \cup {TextBlock("beta")}
ExtractContents == UNION {[1..n -> ExtractBlocks] : n \in 0..MaxBlocks}
ExtractResponses ==
    [stop_reason : StopReasons \cup {"max_tokens"}, content : ExtractContents]

\* A response has come back from the completion service.
InitExtract ==
    /\ pc = "idle"
    /\ max_rounds = DefaultMaxRounds
    /\ tools = [given |-> FALSE, defs |-> <<>>]
    /\ tool_manager = NoManager
    /\ round_num = 0
    /\ messages = <<>>
    /\ outcome = NoOutcome
    /\ calls = <<>>
    /\ replies \in {<<[raised |-> FALSE, response |-> r]>> : r \in ExtractResponses}
    /\ executed = <<>>
    /\ conversation_history = NoHistory
    /\ system_content = <<>>
    /\ events = <<>>
    /\ trail = <<>>
    /\ current = 0
    /\ served = [r \in Requests |-> Waiting]
    /\ registry = {}
    /\ sessions = 0
    /\ session_id = NoSession
    /\ frames = NoFrames
    /\ exchanges = <<>>
    /\ user_query = ""

\* _extract_text_from_response is applied to the response.
Extract ==
    /\ pc = "idle"
    /\ outcome' = ExtractText(replies[1].response)
    /\ pc' = "extracted"
    /\ UNCHANGED <<user_query, frames, exchanges, max_rounds, tools, tool_manager, round_num, messages, calls,
                   replies, executed, conversation_history, system_content,
                   events, trail, current, served, registry, sessions,
                   session_id>>

SpecExtract == InitExtract /\ [][Extract]_vars

\* generate_response called on its own, with the default of
\* conversation_history.
Call ==
    \E q \in Queries, b \in Budgets, t \in ToolsArgs, m \in ToolManagers :
        Start(q, b, t, m, NoHistory) /\ UNCHANGED <<user_query, frames, exchanges, current, served, sessions, session_id>>

Next ==
    \/ Call
    \/ \E e \in ServiceErrors : LoopCallRaises(e)
    \/ \E r \in Responses : ToolRound(r)
    \/ \E r \in Responses : FinalAnswer(r)
    \/ \E r \in Responses : FinalSynthesis(r)
    \/ \E e \in ServiceErrors : FinalSynthesisCallRaises(e)

Spec == Init /\ [][Next]_vars

\* generate_response called with the tool list, for any budget, without a
\* manager or with one whose tools all return or all raise.
CallLive ==
    \E q \in Queries, b \in Budgets,
       m \in {NoManager, WorkingManager, [given |-> TRUE, failing |-> ToolNames]} :
        Start(q, b, AllTools, m, NoHistory) /\ UNCHANGED <<user_query, frames, exchanges, current, served, sessions, session_id>>

NextLive ==
    \/ CallLive
    \/ \E e \in ServiceErrors : LoopCallRaises(e)
    \/ \E r \in Responses : ToolRound(r)
    \/ \E r \in Responses : FinalAnswer(r)
    \/ \E r \in Responses : FinalSynthesis(r)
    \/ \E e \in ServiceErrors : FinalSynthesisCallRaises(e)

\* Every completion call and every tool execution returns or raises, so a
\* step that can be taken is eventually taken.
SpecLive == Init /\ [][NextLive]_vars /\ WF_vars(NextLive)

\* generate_response called with any conversation_history, the tools and
\* the manager being the ones the RAG system passes.
CallWithHistory ==
    \E q \in Queries, b \in Budgets, h \in Histories :
        Start(q, b, AllTools, WorkingManager, h) /\ UNCHANGED <<user_query, frames, exchanges, current, served, sessions, session_id>>

NextSys ==
    \/ CallWithHistory
    \/ \E e \in ServiceErrors : LoopCallRaises(e)
    \/ \E r \in Responses : ToolRound(r)
    \/ \E r \in Responses : FinalAnswer(r)
    \/ \E r \in Responses : FinalSynthesis(r)
    \/ \E e \in ServiceErrors : FinalSynthesisCallRaises(e)

SpecSys == Init /\ [][NextSys]_vars

\* ---------------------------------------------------------- observations
Terminated == pc \in {"returned", "raised"}

\* The k-th completion call returned a response (it did not raise).
IsResponse(k) == k \in 1..Len(replies) /\ ~replies[k].raised

\* The k-th completion call returned a response whose stop reason is tool_use.
RequestsTools(k) == IsResponse(k) /\ replies[k].response.stop_reason = "tool_use"

\* The tool-invocation requests of a content list, in content order.
ToolRequests(content) == SelectSeq(content, LAMBDA b : b.type = "tool_use")

HasTextBlock(content) == \E i \in 1..Len(content) : content[i].type = "text"

\* The text of the first text block of a content list that has one.
TextOf(content) ==
    content[CHOOSE i \in 1..Len(content) :
                /\ content[i].type = "text"
                /\ \A j \in 1..(i - 1) : content[j].type # "text"].text

\* Every one of the max_rounds in-loop calls got a tool_use response.
AllRoundsRequestTools == \A k \in 1..max_rounds : RequestsTools(k)

\* ------------------------------------------------------------------ claims

\* C1: one call of generate_response makes at most R+1 completion-service
\* calls, for every round budget R and every sequence of responses.
C1_AtMostBudgetPlusOneCalls == Len(calls) <= max_rounds + 1

\* C1 witness: a finished orchestration with budget 2 that made 3 calls.
C1_Witness == Terminated /\ max_rounds = 2 /\ Len(calls) = 3

\* C2: with a tool list and a tool manager supplied, if every one of the R
\* in-loop responses requests tool use, the finished orchestration has made
\* exactly R calls carrying tools and tool_choice, followed by exactly one
\* final-synthesis call carrying neither (R+1 calls), and when that last
\* call returned a response with a text block the answer is its text.
C2_ExhaustedBudgetCalls ==
    (Terminated /\ tool_manager.given /\ Truthy(tools) /\ AllRoundsRequestTools)
    => /\ Len(calls) = max_rounds + 1
       /\ \A k \in 1..max_rounds :
              ~calls[k].final /\ calls[k].tools /\ calls[k].tool_choice
       /\ LET last == max_rounds + 1
          IN /\ calls[last].final
             /\ ~calls[last].tools /\ ~calls[last].tool_choice
             /\ (IsResponse(last) /\ HasTextBlock(replies[last].response.content))
                => outcome = Returned(TextOf(replies[last].response.content))

\* C2 witness: budget 1, the only round requested a tool, the answer came
\* from the second call.
C2_Witness ==
    /\ pc = "returned" /\ max_rounds = 1 /\ Truthy(tools) /\ tool_manager.given
    /\ AllRoundsRequestTools /\ Len(calls) = 2
    /\ ToolRequests(replies[1].response.content) # <<>>
    /\ outcome = Returned("alpha")

\* C3: if the response of round 1 has a terminal (non tool_use) stop reason,
\* exactly one completion call is made and no tool is executed.
C3_TerminalFirstRound ==
    (IsResponse(1) /\ replies[1].response.stop_reason # "tool_use")
    => Len(calls) = 1 /\ executed = <<>> /\ Terminated

\* C3 witness: tools and a manager were supplied, the first response is
\* terminal although it contains a tool request, and the call has returned.
C3_Witness ==
    /\ pc = "returned" /\ tool_manager.given /\ Truthy(tools) /\ max_rounds = 2
    /\ IsResponse(1) /\ replies[1].response.stop_reason = "end_turn"
    /\ ToolRequests(replies[1].response.content) # <<>>

\* C4: early exit.  If rounds 1..k-1 requested tools and the response of
\* round k (k <= R) is a final answer, generate_response ends with that
\* call: exactly k calls, none of them final synthesis, no tool executed in
\* round k, and the text of that response is the answer.
C4_EarlyExit ==
    \A k \in 1..max_rounds :
        (/\ IsResponse(k) /\ replies[k].response.stop_reason # "tool_use"
         /\ \A j \in 1..(k - 1) : RequestsTools(j))
        => /\ Terminated /\ Len(calls) = k
           /\ \A j \in 1..k : ~calls[j].final
           /\ \A e \in 1..Len(executed) : executed[e].round < k
           /\ HasTextBlock(replies[k].response.content)
              => outcome = Returned(TextOf(replies[k].response.content))

\* C4 witness: budget 2, a tool was executed in round 1, round 2 answered
\* with a text that follows a tool request block.
C4_Witness ==
    /\ pc = "returned" /\ max_rounds = 2 /\ Len(calls) = 2
    /\ executed # <<>> /\ IsResponse(2)
    /\ replies[2].response.stop_reason = "end_turn"
    /\ Len(replies[2].response.content) = 2
    /\ replies[2].response.content[1].type = "tool_use"
    /\ outcome = Returned("alpha")

\* C5: in every tool round the tool results of the synthesized user turn
\* are in the order of the round's tool-invocation requests, exactly one
\* result per request.
C5_ResultsMatchRequests ==
    \A i \in 1..Len(messages) :
        (messages[i].role = "assistant"
         /\ ToolRequests(messages[i].content) # <<>>)
        => LET reqs == ToolRequests(messages[i].content)
           IN /\ i + 1 <= Len(messages)
              /\ messages[i + 1].role = "user"
              /\ Len(messages[i + 1].content) = Len(reqs)
              /\ \A j \in 1..Len(reqs) :
                     /\ messages[i + 1].content[j].type = "tool_result"
                     /\ messages[i + 1].content[j].tool_use_id = reqs[j].id

\* C5 witness: a round whose response held two different requests, the
\* second one first, has been folded into the conversation.
C5_Witness ==
    \E i \in 1..Len(messages) :
        /\ messages[i].role = "assistant"
        /\ Len(ToolRequests(messages[i].content)) = 2
        /\ ToolRequests(messages[i].content)[1].id = "toolu_2"
        /\ ToolRequests(messages[i].content)[2].id = "toolu_1"
        /\ i + 1 <= Len(messages)
        /\ messages[i + 1].content[1].tool_use_id = "toolu_2"

\* The turns of a conversation alternate user, assistant, user, ...
Alternates(msgs) ==
    \A i \in 1..Len(msgs) :
        msgs[i].role = (IF i % 2 = 1 THEN "user" ELSE "assistant")

\* C6: in every reachable state the conversation built by the loop, and
\* every conversation it has sent to the completion service, strictly
\* alternates roles starting with user, for any sequence of responses.
C6_RolesAlternate ==
    /\ Alternates(messages)
    /\ \A k \in 1..Len(calls) : Alternates(calls[k].messages)

\* A string built from parts contains the part.
Contains(parts, part) == \E i \in 1..Len(parts) : parts[i] = part

\* The turn at position i carries tool results.
IsToolResultTurn(i) == i \in 2..Len(messages) /\ messages[i].role = "user"

\* C7: a request whose execution raised still has a tool result for its
\* invocation id whose content contains "Error executing tool" and the
\* tool's name, and the orchestration went on to the next round or to
\* final synthesis: the exception of the tool is never the outcome.
C7_ToolErrorBecomesResult ==
    \A e \in 1..Len(executed) :
        executed[e].raised
        => /\ \E i \in 1..Len(messages) :
                 /\ IsToolResultTurn(i)
                 /\ \E j \in 1..Len(messages[i].content) :
                        /\ messages[i].content[j].tool_use_id = executed[e].id
                        /\ Contains(messages[i].content[j].content,
                                    "Error executing tool ")
                        /\ Contains(messages[i].content[j].content,
                                    executed[e].name)
           /\ pc \in {"loop", "final"} \/ Len(calls) > executed[e].round
           /\ outcome.kind = "raise" => outcome.value \in ServiceErrors

\* C7 witness: a tool raised in round 1 of 2 and a later completion call
\* produced the answer.
C7_Witness ==
    /\ pc = "returned" /\ max_rounds = 2 /\ outcome = Returned("alpha")
    /\ \E e \in 1..Len(executed) :
           /\ executed[e].raised /\ executed[e].round = 1
           /\ executed[e].name = "get_course_outline"
    /\ Len(calls) >= 2

\* C8: when the budget is exhausted and the final-synthesis response has no
\* extractable text (empty content or no text block), generate_response
\* returns the fallback message and raises nothing.
C8_FallbackOnEmptySynthesis ==
    \A k \in 1..Len(calls) :
        (/\ Terminated /\ calls[k].final /\ IsResponse(k)
         /\ ~HasTextBlock(replies[k].response.content))
        => /\ outcome = Returned(FallbackMessage)
           /\ pc = "returned"

\* C8 witness: after two tool rounds the final-synthesis response held only
\* a tool request, and the fallback message was returned.
C8_Witness ==
    /\ pc = "returned" /\ max_rounds = 2 /\ Len(calls) = 3
    /\ IsResponse(3) /\ Len(replies[3].response.content) = 1
    /\ replies[3].response.content[1].type = "tool_use"
    /\ outcome = Returned(FallbackMessage)

\* C9: a failure raised by the completion service during any completion
\* call, in-loop or final synthesis, propagates to the caller: the outcome
\* of generate_response is that exception, never an answer text.
C9_ServiceFailurePropagates ==
    \A k \in 1..Len(replies) :
        replies[k].raised => outcome = Raised(replies[k].exc)

\* C10: a response of a round 1..R that is treated as the final answer and
\* has no text block makes generate_response raise the extraction error:
\* no fallback message, no further completion call, no tool execution in
\* or after that round.
C10_ExtractionErrorPropagates ==
    \A k \in 1..Len(calls) :
        (/\ ~calls[k].final /\ IsResponse(k)
         /\ ~(replies[k].response.stop_reason = "tool_use" /\ tool_manager.given)
         /\ ~HasTextBlock(replies[k].response.content))
        => /\ pc = "raised"
           /\ outcome = Raised("ValueError")
           /\ Len(calls) = k
           /\ \A e \in 1..Len(executed) : executed[e].round < k

\* C10 witness: round 2 of 2 answered end_turn with a lone tool request
\* block after a tool round, and the extraction error was raised.
C10_Witness ==
    /\ pc = "raised" /\ max_rounds = 2 /\ Len(calls) = 2 /\ executed # <<>>
    /\ IsResponse(2) /\ replies[2].response.stop_reason = "end_turn"
    /\ Len(replies[2].response.content) = 1
    /\ replies[2].response.content[1].type = "tool_use"
    /\ outcome = Raised("ValueError")

\* C11: when a non-empty tool list is supplied, every completion call of
\* the rounds 1..R, the last round included, carries the tool definitions
\* and the automatic tool_choice; when no tool list (or an empty one) is
\* supplied, no call at all carries tools or tool_choice.
C11_ToolsOnEveryLoopCall ==
    \A k \in 1..Len(calls) :
        IF tools.given /\ tools.defs # <<>>
        THEN ~calls[k].final => (calls[k].tools /\ calls[k].tool_choice)
        ELSE ~calls[k].tools /\ ~calls[k].tool_choice

\* C11 witness: with tools supplied and budget 2, the call of round 2, the
\* last round, was issued with tools after a tool round.
C11_Witness ==
    /\ tools.given /\ tools.defs # <<>> /\ max_rounds = 2
    /\ Len(calls) >= 2 /\ ~calls[2].final
    /\ calls[2].tools /\ calls[2].tool_choice
    /\ executed # <<>>

\* The dispatches of the log made in round k, in order.
DispatchedIn(k) == SelectSeq(executed, LAMBDA d : d.round = k)

\* The k-th call was an in-loop call answered by a response that the loop
\* handled as a tool round.
IsToolRound(k) ==
    /\ k \in 1..Len(calls) /\ ~calls[k].final /\ tool_manager.given
    /\ RequestsTools(k)

\* C12: every tool-invocation request of a tool-round response is
\* dispatched to the tool manager exactly once, in the order of the
\* response, within that round; nothing is dispatched for any other call
\* and no request is dispatched again in a later round.
C12_DispatchedOnceInOrder ==
    /\ \A k \in 1..Len(calls) :
           LET disp == DispatchedIn(k)
               reqs == IF IsToolRound(k)
                       THEN ToolRequests(replies[k].response.content)
                       ELSE <<>>
           IN /\ Len(disp) = Len(reqs)
              /\ \A j \in 1..Len(reqs) :
                     disp[j].id = reqs[j].id /\ disp[j].name = reqs[j].name
    /\ \A e \in 1..Len(executed) :
           /\ executed[e].round \in 1..Len(calls)
           /\ e > 1 => executed[e - 1].round <= executed[e].round

\* C12 witness: a round dispatched two requests, the failing one first,
\* and a later round has been handled since.
C12_Witness ==
    /\ Len(calls) >= 2
    /\ Len(DispatchedIn(1)) = 2
    /\ DispatchedIn(1)[1].id = "toolu_2" /\ DispatchedIn(1)[1].raised
    /\ DispatchedIn(1)[2].id = "toolu_1"
    /\ DispatchedIn(2) # <<>>

\* The number of in-loop completion calls made so far.
LoopCalls == Cardinality({k \in 1..Len(calls) : ~calls[k].final})

\* C13: the round counter is the number of the round whose call is being
\* issued (one more than the in-loop calls made) while the loop runs, the
\* number of in-loop calls made once it has ended, and never exceeds the
\* budget R; so only rounds 1..R execute tools.
C13_RoundCounterBounded ==
    /\ pc = "loop" => round_num = LoopCalls + 1
    /\ pc \in {"final", "returned", "raised"} => round_num = LoopCalls
    /\ pc # "idle" => round_num \in 1..max_rounds
    /\ \A e \in 1..Len(executed) : executed[e].round \in 1..max_rounds
    /\ Cardinality({executed[e].round : e \in 1..Len(executed)}) <= max_rounds

\* C13 witness: budget 2, both rounds executed tools, and the loop has
\* ended with the counter at 2.
C13_Witness ==
    /\ pc = "final" /\ max_rounds = 2 /\ round_num = 2
    /\ {executed[e].round : e \in 1..Len(executed)} = {1, 2}

\* C14: the i-th tool result of a tool-result turn carries the invocation
\* identifier of the i-th request of the assistant turn before it, also
\* when the tool failed.
C14_ResultCarriesRequestId ==
    \A i \in 1..Len(messages) :
        IsToolResultTurn(i)
        => LET reqs == ToolRequests(messages[i - 1].content)
           IN \A j \in 1..Len(messages[i].content) :
                  /\ j <= Len(reqs)
                  /\ messages[i].content[j].tool_use_id = reqs[j].id

\* C14 witness: a turn holds the results of two requests, the first of
\* which failed, each under its own identifier.
C14_Witness ==
    \E i \in 1..Len(messages) :
        /\ IsToolResultTurn(i)
        /\ Len(messages[i].content) = 2
        /\ messages[i].content[1].tool_use_id = "toolu_1"
        /\ Contains(messages[i].content[1].content, "Error executing tool ")
        /\ messages[i].content[2].tool_use_id = "toolu_2"

\* The positions of the log where a content search returned.
SearchesDone ==
    {e \in 1..Len(executed) :
        executed[e].name = "search_course_content" /\ ~executed[e].raised}

\* C15: the loop neither reads nor clears the source trail: the only tool
\* manager operation it invokes is execute_tool, so the trail is at every
\* moment, and on return, what the executions so far left (the record of
\* the last content search that returned, nothing when there was none).
C15_LoopOnlyExecutesTools ==
    /\ \A e \in 1..Len(executed) : executed[e].op = "execute_tool"
    /\ trail = IF SearchesDone = {} THEN <<>>
               ELSE LET last == CHOOSE e \in SearchesDone :
                                    \A f \in SearchesDone : f <= e
                    IN <<SourceRecord(current, executed[last])>>

\* C15 witness: a search of round 1 left its record, round 2 ran the
\* outline tool only, the answer was returned and the record is still there.
C15_Witness ==
    /\ pc = "returned" /\ trail # <<>> /\ trail[1].round = 1
    /\ \E e \in 1..Len(executed) :
           executed[e].round = 2 /\ executed[e].name = "get_course_outline"

\* Program order of the events of one round.
Rank(kind) ==
    CASE kind \in {"call", "final_call"} -> 0
      [] kind = "assistant" -> 1
      [] kind \in {"exec_start", "exec_end"} -> 2
      [] kind = "results" -> 3

\* The number of tool executions of round k that have finished.
FinishedIn(k) ==
    Cardinality({p \in 1..Len(events) :
                    events[p].kind = "exec_end" /\ events[p].round = k})

\* C16: the loop is strictly sequential.  Every event of a round comes
\* before the call of the next round, in the order call, assistant turn,
\* tool executions, tool-result turn; a tool execution has ended before
\* the next one starts; and the conversation sent with the call of round
\* k+1 is the one sent in round k plus round k's assistant turn and its
\* tool-result turn, a user turn holding one result per request of round
\* k, whatever the round's response holds.
C16_StrictlySequential ==
    /\ \A p, q \in 1..Len(events) :
           p < q => \/ events[p].round < events[q].round
                    \/ /\ events[p].round = events[q].round
                       /\ Rank(events[p].kind) <= Rank(events[q].kind)
    /\ \A p \in 1..Len(events) :
           /\ events[p].kind = "exec_start"
              => /\ p + 1 <= Len(events)
                 /\ events[p + 1] = Event("exec_end", events[p].round, events[p].id)
           /\ events[p].kind = "exec_end"
              => p > 1 /\ events[p - 1].kind = "exec_start"
    /\ \A k \in 2..Len(calls) :
           LET content == replies[k - 1].response.content
               reqs == ToolRequests(content)
               sent == calls[k].messages
               before == Len(calls[k - 1].messages)
           IN /\ FinishedIn(k - 1) = Len(reqs)
              /\ SubSeq(sent, 1, before) = calls[k - 1].messages
              /\ sent[before + 1] = [role |-> "assistant", content |-> content]
              /\ Len(sent) = before + 2
              /\ sent[before + 2].role = "user"
              /\ Len(sent[before + 2].content) = Len(reqs)

\* The case of C16 the loop does serve as stated: three calls were made,
\* and two tools ran one after the other in round 1.
C16_Witness ==
    /\ Len(calls) = 3 /\ FinishedIn(1) = 2 /\ FinishedIn(2) = 1
    /\ \E p \in 1..Len(events) :
           /\ events[p] = Event("exec_end", 1, "toolu_1")
           /\ p + 1 <= Len(events)
           /\ events[p + 1] = Event("exec_start", 1, "toolu_2")

\* C20: the system instruction sent with every completion call of an
\* orchestration, final synthesis included, is the fixed block alone when
\* no prior conversation is supplied (None or empty), and the fixed block,
\* the heading "Previous conversation:" and the supplied history otherwise.
C20_SystemInstruction ==
    \A k \in 1..Len(calls) :
        calls[k].system =
            IF conversation_history.given /\ conversation_history.text # ""
            THEN <<SYSTEM_PROMPT, "\n\nPrevious conversation:\n",
                   conversation_history.text>>
            ELSE <<SYSTEM_PROMPT>>

\* C20 witness: a history was supplied and the final-synthesis call, the
\* third call, was sent with the block, the heading and the history.
C20_Witness ==
    /\ Len(calls) = 3 /\ calls[3].final
    /\ conversation_history.given /\ conversation_history.text # ""
    /\ Len(calls[3].system) = 3
    /\ calls[3].system[3] = conversation_history.text

\* generate_response has ended with a returned text or a propagated error.
EndedProperly ==
    \/ pc = "returned" /\ outcome.kind = "return"
                       /\ outcome.value \in Texts \cup {FallbackMessage}
    \/ pc = "raised" /\ outcome.kind = "raise"
                     /\ outcome.value \in ServiceErrors

\* C18: as long as every completion call and every tool execution returns
\* or raises, each call of generate_response terminates, for any budget
\* and any sequence of responses, with a returned text answer or with a
\* propagated error.
C18_Terminates == (pc = "loop") ~> EndedProperly

\* C18 witness: a call with budget 2 went through both tool rounds and
\* final synthesis and ended by raising the service's error.
C18_Witness ==
    /\ pc = "raised" /\ max_rounds = 2 /\ Len(calls) = 3
    /\ outcome = Raised("APIError") /\ Len(executed) >= 2

\* C19: text extraction returns the text of the first block, in content
\* order, that is a text block, whatever the stop reason and whatever
\* blocks precede it, and fails if and only if there is no text block.
C19_FirstTextBlock ==
    pc = "extracted"
    => LET content == replies[1].response.content
       IN IF HasTextBlock(content)
          THEN outcome = Returned(TextOf(content))
          ELSE outcome.kind = "raise"

\* C19 witness: the content holds two different texts and the first one
\* was returned, under stop reason tool_use.
C19_Witness ==
    /\ pc = "extracted"
    /\ replies[1].response.stop_reason = "tool_use"
    /\ replies[1].response.content = <<TextBlock("beta"), TextBlock("alpha")>>
    /\ outcome = Returned("beta")

\* C19 second case: a tool request precedes the only text.
C19_WitnessAfterToolUse ==
    /\ pc = "extracted"
    /\ Len(replies[1].response.content) = 2
    /\ replies[1].response.content[1].type = "tool_use"
    /\ outcome = Returned("beta")

\* C17: the source trail is isolated per concurrent query: with several
\* /api/query requests in flight against the shared RAG system, the
\* sources returned with an answer contain only attribution records
\* produced by that request's own tool executions.
C17_SourcesIsolated ==
    \A r \in Requests :
        served[r].status = "200"
        => \A i \in 1..Len(served[r].sources) :
               served[r].sources[i].request = r

\* C21: each tool round appends exactly two turns, the assistant turn
\* carrying the response's raw content and then one user turn carrying all
\* tool results, so the conversation sent with the k-th completion call
\* (after k-1 tool rounds) has exactly 2k-1 turns.
C21_TwoTurnsPerToolRound ==
    \A k \in 1..Len(calls) :
        /\ Len(calls[k].messages) = 2 * k - 1
        /\ k > 1
           => LET content == replies[k - 1].response.content
                  sent == calls[k].messages
              IN /\ sent[2 * k - 2] = [role |-> "assistant", content |-> content]
                 /\ sent[2 * k - 1].role = "user"
                 /\ Len(sent[2 * k - 1].content) = Len(ToolRequests(content))

\* ------------------------------------------------ tool manager and tools
\* Largest number of chunks the content store returns for one search.
MaxHits == 2
\* Number of tool manager operations applied one after the other.
MaxOps == 3

\* The names a dispatch can ask for: the two tools, and a name no tool has.
DispatchNames == ToolNames \cup {"nonexistent_tool"}

\* What the content store answers a search: an error, or a ranked list of
\* chunks that may be empty.
StoreOutcomes ==
    {[error |-> TRUE, hits |-> 0]} \cup [error : {FALSE}, hits : 0..MaxHits]
\* The store is not asked anything by a dispatch to another name.
NoStore == [error |-> FALSE, hits |-> 0]

\* The attribution records of one search execution, one per formatted chunk.
SearchSources(exec_no, store) ==
    [i \in 1..store.hits |-> [execution |-> exec_no, chunk |-> i]]

\* A search tool that keeps the earlier records and adds the new ones.
SearchTrailAppending(tr, exec_no, store) ==
    tr \o SearchSources(exec_no, store)

\* CourseSearchTool.execute, its side effect: the trail is overwritten with
\* the records of this execution.
SearchTrail(tr, exec_no, store) == SearchSources(exec_no, store)

\* CourseSearchTool.execute, its result: the store's error text, the
\* no-content message, or the formatted chunks.
SearchText(store) ==
    IF store.error THEN <<"Search error">>
    ELSE IF store.hits = 0 THEN <<"No relevant content found", ".">>
    ELSE [i \in 1..store.hits |-> "[course - Lesson n]\nchunk"]

\* A dispatch that looks the name up without checking that it is there.
ManagerExecuteUnchecked(reg, name, tr, exec_no, store) ==
    IF name \notin reg
    THEN [raised |-> TRUE, value |-> <<"KeyError">>, trail |-> tr]
    ELSE IF name = "search_course_content"
         THEN [raised |-> FALSE, value |-> SearchText(store),
               trail |-> SearchTrail(tr, exec_no, store)]
         ELSE [raised |-> FALSE, value |-> <<"outline">>, trail |-> tr]

\* ToolManager.execute_tool: a name that is not registered gives the
\* not-found text, the search tool searches and leaves its sources, the
\* outline tool leaves no sources.
ManagerExecute(reg, name, tr, exec_no, store) ==
    IF name \notin reg
    THEN [raised |-> FALSE, value |-> <<"Tool '", name, "' ", "not found">>,
          trail |-> tr]
    ELSE IF name = "search_course_content"
         THEN [raised |-> FALSE, value |-> SearchText(store),
               trail |-> SearchTrail(tr, exec_no, store)]
         ELSE [raised |-> FALSE, value |-> <<"outline">>, trail |-> tr]

\* ToolManager.get_last_sources.
GetLastSourcesOf(tr) == tr

\* A reset that leaves the trail as it is.
ResetSourcesOfNothing(tr) == tr
\* ToolManager.reset_sources: every tool's trail becomes empty.
ResetSourcesOf(tr) == <<>>

\* One entry of the log of manager operations.
ManagerOp(op, name, store, raised, value, after) ==
    [op |-> op, name |-> name, store |-> store, registered |-> registry,
     raised |-> raised, value |-> value, before |-> trail, after |-> after]

\* ToolManager.register_tool, each tool being registered once.
RegisterTool(name) ==
    /\ name \notin registry
    /\ registry' = registry \cup {name}
    /\ UNCHANGED <<user_query, frames, exchanges, pc, max_rounds, tools, tool_manager, round_num, messages,
                   outcome, calls, replies, executed, conversation_history,
                   system_content, events, trail, current, served, sessions,
                   session_id>>

\* tool_manager.execute_tool(name, ...), the store answering as given.
ManagerExecuteTool(name, store) ==
    /\ Len(executed) < MaxOps
    /\ LET r == ManagerExecute(registry, name, trail, Len(executed) + 1, store)
       IN /\ outcome' = IF r.raised THEN Raised(r.value) ELSE Returned(r.value)
          /\ trail' = r.trail
          /\ executed' = Append(executed,
                                ManagerOp("execute_tool", name, store, r.raised,
                                          r.value, r.trail))
    /\ UNCHANGED <<user_query, frames, exchanges, pc, max_rounds, tools, tool_manager, round_num, messages,
                   calls, replies, conversation_history, system_content,
                   events, current, served, registry, sessions, session_id>>

\* tool_manager.get_last_sources().
ManagerGetLastSources ==
    /\ Len(executed) < MaxOps
    /\ outcome' = Returned(GetLastSourcesOf(trail))
    /\ executed' = Append(executed,
                          ManagerOp("get_last_sources", "", NoStore, FALSE,
                                    GetLastSourcesOf(trail), trail))
    /\ UNCHANGED <<user_query, frames, exchanges, pc, max_rounds, tools, tool_manager, round_num, messages,
                   calls, replies, conversation_history, system_content,
                   events, trail, current, served, registry, sessions,
                   session_id>>

\* tool_manager.reset_sources().
ManagerResetSources ==
    /\ Len(executed) < MaxOps
    /\ trail' = ResetSourcesOf(trail)
    /\ outcome' = Returned(<<>>)
    /\ executed' = Append(executed,
                          ManagerOp("reset_sources", "", NoStore, FALSE, <<>>,
                                    ResetSourcesOf(trail)))
    /\ UNCHANGED <<user_query, frames, exchanges, pc, max_rounds, tools, tool_manager, round_num, messages,
                   calls, replies, conversation_history, system_content,
                   events, current, served, registry, sessions, session_id>>

NextTools ==
    \/ \E n \in ToolNames : RegisterTool(n)
    \/ \E n \in DispatchNames :
          \E s \in (IF n = "search_course_content" THEN StoreOutcomes
                    ELSE {NoStore}) : ManagerExecuteTool(n, s)
    \/ ManagerGetLastSources
    \/ ManagerResetSources

\* A tool manager on which tools are registered and operations are called
\* in any order.
SpecTools == Init /\ [][NextTools]_vars

\* C22: dispatching execute_tool to a name that is not registered returns
\* a text containing "not found" and never raises, in every state of the
\* registry, the empty registry included.
C22_UnknownToolNotFound ==
    \A e \in 1..Len(executed) :
        (executed[e].op = "execute_tool"
         /\ executed[e].name \notin executed[e].registered)
        => /\ ~executed[e].raised
           /\ Contains(executed[e].value, "not found")
           /\ executed[e].after = executed[e].before

\* C22 witness: names were dispatched to the empty registry and, later, to
\* a registry holding the search tool, which had left sources.
C22_Witness ==
    /\ Len(executed) >= 3
    /\ executed[1].op = "execute_tool" /\ executed[1].registered = {}
    /\ executed[1].name = "search_course_content"
    /\ Contains(executed[1].value, "not found")
    /\ executed[3].op = "execute_tool" /\ executed[3].name = "nonexistent_tool"
    /\ executed[3].registered # {} /\ executed[3].before # <<>>
    /\ Contains(executed[3].value, "not found")

\* C23: clearing the registry's sources and then immediately reading them
\* returns an empty list from any state, also when no tool was ever
\* executed; clearing twice has the same effect as clearing once.
C23_ClearThenReadEmpty ==
    \A e \in 1..Len(executed) :
        /\ executed[e].op = "reset_sources"
           => ~executed[e].raised /\ executed[e].after = <<>>
        /\ (e > 1 /\ executed[e].op = "get_last_sources"
            /\ executed[e - 1].op = "reset_sources")
           => ~executed[e].raised /\ executed[e].value = <<>>
        /\ (e > 1 /\ executed[e].op = "reset_sources"
            /\ executed[e - 1].op = "reset_sources")
           => executed[e].after = executed[e - 1].after

\* C23 witness: a search left two records, the sources were cleared and
\* the read that followed returned the empty list.
C23_Witness ==
    /\ Len(executed) = 3
    /\ executed[1].op = "execute_tool" /\ Len(executed[1].after) = 2
    /\ executed[2].op = "reset_sources" /\ executed[2].before # <<>>
    /\ executed[3].op = "get_last_sources" /\ executed[3].value = <<>>

\* C23 second case: cleared twice and read on a manager that never
\* executed a tool.
C23_WitnessNoExecution ==
    /\ Len(executed) = 3
    /\ executed[1].op = "reset_sources" /\ executed[1].registered = {}
    /\ executed[2].op = "reset_sources"
    /\ executed[3].op = "get_last_sources" /\ executed[3].value = <<>>

\* The search tool ran in the e-th operation of the log.
IsSearchExecution(e) ==
    /\ executed[e].op = "execute_tool"
    /\ executed[e].name = "search_course_content"
    /\ executed[e].name \in executed[e].registered

\* C24: every execution of the content-search tool overwrites the tool's
\* source trail: after it the trail holds only the attribution records of
\* that execution, one per chunk, and no record of an earlier execution,
\* for any sequence of executions.
C24_SearchOverwritesTrail ==
    \A e \in 1..Len(executed) :
        IsSearchExecution(e)
        => /\ Len(executed[e].after) = executed[e].store.hits
           /\ \A i \in 1..Len(executed[e].after) :
                  executed[e].after[i] = [execution |-> e, chunk |-> i]

\* C24 witness: a search that found two chunks was followed by a search
\* that found one, and the trail holds that one record.
C24_Witness ==
    /\ Len(executed) >= 2
    /\ IsSearchExecution(1) /\ executed[1].store.hits = 2
    /\ IsSearchExecution(2) /\ executed[2].store.hits = 1
    /\ Len(executed[2].before) = 2
    /\ trail = <<[execution |-> 2, chunk |-> 1]>>

\* C25: after every RAG query that returns an answer the tool manager's
\* source trail is empty: the caller reads the trail once, returns what it
\* read, and resets the trail before returning.
C25_TrailEmptyAfterQuery ==
    [][(current # 0 /\ pc = "returned" /\ current' = 0)
       => /\ trail' = <<>>
          /\ served'[current].sources = trail]_vars

\* C25 witness: a query whose search left a record was answered with that
\* record as its sources, and the trail is empty.
C25_Witness ==
    /\ current = 0 /\ trail = <<>>
    /\ \E r \in Requests :
           /\ served[r].status = "200"
           /\ Len(served[r].sources) = 1
           /\ served[r].sources[1].request = r

\* The request was sent to /api/query and has been answered, or is being
\* served.
IsQuery(r) ==
    served[r].endpoint = "/api/query" /\ served[r].status # "waiting"

\* C26 as stated: POST /api/query returns the request's session_id
\* unchanged when one is supplied and never creates a session in that
\* case; when none is supplied it creates exactly one new session and
\* returns its id.
C26_SessionIdAsStated ==
    \A r \in Requests :
        (IsQuery(r) /\ served[r].status = "200")
        => IF served[r].request_session # NoSession
           THEN /\ served[r].session_id = served[r].request_session
                /\ served[r].created = 0
           ELSE /\ served[r].created = 1
                /\ served[r].session_id.text = "session_"

\* C26 amended: the session_id of the request counts as supplied when it
\* is not empty.  A request with one is answered with it and no session is
\* created for it; a request with none (null or the empty string) has
\* exactly one session created and is answered with the id of that
\* session, which no other request was given.  Whether the query then
\* succeeds or fails, no further session is created.
C26_SessionId ==
    \A r \in Requests :
        IsQuery(r)
        => /\ SessionGiven(served[r].request_session)
              => /\ served[r].created = 0
                 /\ served[r].status = "200"
                    => served[r].session_id = served[r].request_session
           /\ ~SessionGiven(served[r].request_session)
              => /\ served[r].created <= 1
                 /\ served[r].status = "200"
                    => /\ served[r].created = 1
                       /\ served[r].session_id.text = "session_"
                       /\ served[r].session_id.n \in 1..sessions
                       /\ \A o \in Requests \ {r} :
                              served[o].status = "200"
                              => served[o].session_id # served[r].session_id
           /\ sessions = Cardinality({o \in Requests : served[o].created = 1})

\* C26 witness: one request brought its session and got it back, another
\* sent the empty string and was answered with a new session's id.
C26_Witness ==
    \E r, o \in Requests :
        /\ served[r].status = "200"
        /\ served[r].request_session = ClientSession("existing_session_123")
        /\ served[r].session_id = ClientSession("existing_session_123")
        /\ served[o].status = "200"
        /\ served[o].request_session = ClientSession("")
        /\ served[o].session_id = CreatedSession(1)
        /\ sessions = 1

\* C27: any exception raised while POST /api/query or GET /api/courses is
\* processed becomes an HTTP 500 response: no exception leaves the
\* endpoint, and a failed request is never answered with status 200 nor
\* with an answer.
C27_ExceptionsBecome500 ==
    \A r \in Requests :
        /\ served[r].status \in {"waiting", "running", "200", "500"}
        /\ served[r].error # ""
           => /\ served[r].status = "500"
              /\ served[r].answer = "" /\ served[r].sources = <<>>
        /\ served[r].status = "500" => served[r].error # ""

\* C27 witness: a query failed in the completion service after a search,
\* and a course statistics request failed too: both were answered 500.
C27_Witness ==
    \E r, o \in Requests :
        /\ served[r].endpoint = "/api/query" /\ served[r].status = "500"
        /\ served[r].error = "APIError" /\ trail # <<>>
        /\ served[o].endpoint = "/api/courses" /\ served[o].status = "500"
        /\ served[o].error = "RuntimeError"

\* C28: every completion call of an orchestration, in-loop or final
\* synthesis, is sent with the same fixed generation parameters: the
\* configured model, temperature 0 and max_tokens 1200.
C28_FixedGenerationParameters ==
    \A k \in 1..Len(calls) :
        /\ calls[k].model = "claude-sonnet-4-20250514"
        /\ calls[k].temperature = 0
        /\ calls[k].max_tokens = 1200

\* C28 witness: two in-loop calls with tools and the final-synthesis call
\* without them were sent.
C28_Witness ==
    /\ Len(calls) = 3
    /\ ~calls[1].final /\ calls[1].tools
    /\ ~calls[2].final
    /\ calls[3].final /\ ~calls[3].tools

\* C29: a tool is executed only while an in-loop response whose stop
\* reason is tool_use is handled, and only when a tool manager was
\* supplied; a response with any other stop reason causes no tool
\* execution, even if its content holds tool-invocation requests.
C29_ToolsOnlyOnToolUse ==
    /\ \A e \in 1..Len(executed) :
           LET k == executed[e].round
           IN /\ tool_manager.given
              /\ k \in 1..Len(calls) /\ ~calls[k].final
              /\ IsResponse(k)
              /\ replies[k].response.stop_reason = "tool_use"
              /\ \E i \in 1..Len(replies[k].response.content) :
                     /\ replies[k].response.content[i].type = "tool_use"
                     /\ replies[k].response.content[i].id = executed[e].id
    /\ \A k \in 1..Len(replies) :
           (IsResponse(k) /\ replies[k].response.stop_reason # "tool_use")
           => DispatchedIn(k) = <<>>

\* C29 witness: with a manager supplied, round 1 executed a tool and the
\* end_turn response of round 2 held a tool request that was not executed.
C29_Witness ==
    /\ Terminated /\ tool_manager.given /\ Len(calls) = 2
    /\ DispatchedIn(1) # <<>> /\ DispatchedIn(2) = <<>>
    /\ IsResponse(2) /\ replies[2].response.stop_reason = "end_turn"
    /\ ToolRequests(replies[2].response.content) # <<>>

\* C29 second case: no manager was supplied and a tool_use response with a
\* tool request executed nothing.
C29_WitnessNoManager ==
    /\ Terminated /\ ~tool_manager.given /\ Len(calls) = 1
    /\ RequestsTools(1) /\ ToolRequests(replies[1].response.content) # <<>>
    /\ executed = <<>>

\* C30: the final-synthesis call is made at most once per orchestration
\* and only when all R in-loop responses were tool rounds; the fallback
\* message is returned only as the outcome of that call, never from an
\* in-loop round.
C30_FinalSynthesisOnceAfterBudget ==
    /\ Cardinality({k \in 1..Len(calls) : calls[k].final}) <= 1
    /\ \A k \in 1..Len(calls) :
           calls[k].final
           => /\ k = max_rounds + 1 /\ k = Len(calls)
              /\ \A j \in 1..max_rounds : IsToolRound(j)
    /\ outcome = Returned(FallbackMessage)
       => /\ pc = "returned"
          /\ Len(calls) = max_rounds + 1
          /\ calls[Len(calls)].final

\* C30 witness: with budget 1 the only round was a tool round, and the
\* final-synthesis call, whose response was empty, gave the fallback
\* message.
C30_Witness ==
    /\ pc = "returned" /\ max_rounds = 1 /\ Len(calls) = 2
    /\ IsToolRound(1) /\ calls[2].final
    /\ IsResponse(2) /\ replies[2].response.content = <<>>
    /\ outcome = Returned(FallbackMessage)

\* C31: no tool is executed after the final-synthesis call has been
\* issued, even if its response has stop reason tool_use or holds
\* tool-invocation requests; the orchestration ends with that call, the
\* conversation being left as it was sent.
C31_NoToolAfterFinalSynthesis ==
    \A k \in 1..Len(calls) :
        calls[k].final
        => /\ k = Len(calls)
           /\ Terminated
           /\ outcome.kind \in {"return", "raise"}
           /\ \A e \in 1..Len(executed) : executed[e].round < k
           /\ messages = calls[k].messages

\* C31 witness: the final-synthesis response had stop reason tool_use and
\* held a tool request next to its text; the text was returned and only
\* the two rounds of the loop executed tools.
C31_Witness ==
    /\ pc = "returned" /\ max_rounds = 2 /\ Len(calls) = 3 /\ calls[3].final
    /\ RequestsTools(3)
    /\ ToolRequests(replies[3].response.content) # <<>>
    /\ outcome = Returned("alpha")
    /\ DispatchedIn(1) # <<>> /\ DispatchedIn(2) # <<>>

\* The position in the conversation of the assistant turn of round k.
AssistantTurnOf(k) ==
    CHOOSE i \in 1..Len(messages) :
        /\ messages[i].role = "assistant"
        /\ Cardinality({j \in 1..i : messages[j].role = "assistant"}) = k

\* C32: within a tool round that holds several requests, a request whose
\* execution raises does not abort the round: every request of the round,
\* before and after it, is executed once and has its own result, an error
\* text for the ones that raised and the tool's output for the others, so
\* the results are as many as the requests.
C32_FailingToolDoesNotAbortRound ==
    \A k \in 1..Len(calls) :
        LET disp == DispatchedIn(k)
        IN (IsToolRound(k) /\ \E d \in 1..Len(disp) : disp[d].raised)
           => LET reqs == ToolRequests(replies[k].response.content)
                  results == messages[AssistantTurnOf(k) + 1].content
              IN /\ Len(disp) = Len(reqs)
                 /\ AssistantTurnOf(k) + 1 <= Len(messages)
                 /\ messages[AssistantTurnOf(k) + 1].role = "user"
                 /\ Len(results) = Len(reqs)
                 /\ \A j \in 1..Len(reqs) :
                        /\ disp[j].id = reqs[j].id
                        /\ results[j].tool_use_id = reqs[j].id
                        /\ disp[j].raised
                           <=> Contains(results[j].content, "Error executing tool ")
                        /\ ~disp[j].raised
                           => results[j].content = <<"tool output">>

\* C32 witness: the first request of a round raised and the second one,
\* after it, was executed and has the tool's output as its result.
C32_Witness ==
    /\ IsToolRound(1) /\ Len(DispatchedIn(1)) = 2
    /\ DispatchedIn(1)[1].raised /\ ~DispatchedIn(1)[2].raised
    /\ Len(messages) >= 3
    /\ Contains(messages[3].content[1].content, "Error executing tool ")
    /\ messages[3].content[2].content = <<"tool output">>

\* C32 second case: the request that raised came after one that returned.
C32_WitnessFailingLast ==
    /\ IsToolRound(1) /\ Len(DispatchedIn(1)) = 2
    /\ ~DispatchedIn(1)[1].raised /\ DispatchedIn(1)[2].raised
    /\ Len(messages) >= 3
    /\ messages[3].content[1].content = <<"tool output">>
    /\ Contains(messages[3].content[2].content, "Error executing tool ")

\* --------------------------------------------------- invalid tool payloads
\* Tool requests as the service can send them: each tool with a payload it
\* accepts and with one that is invalid for dispatch.
PayloadToolUses ==
    {ToolUseBlockWith("toolu_1", "search_course_content", inp) :
        inp \in {"mapping", "not_a_mapping"}}
    \cup {ToolUseBlockWith("toolu_2", "get_course_outline", inp) :
            inp \in {"mapping", "unexpected_parameter"}}

PayloadResponses ==
    {[stop_reason |-> "tool_use", content |-> c] :
        c \in UNION {[1..n -> PayloadToolUses] : n \in 1..MaxBlocks}}
    \cup {[stop_reason |-> "end_turn", content |-> <<TextBlock("alpha")>>]}

\* generate_response called with the tools and a manager whose tools work.
CallPayload ==
    \E q \in Queries, b \in Budgets :
        Start(q, b, AllTools, WorkingManager, NoHistory)
        /\ UNCHANGED <<user_query, frames, exchanges, current, served, sessions, session_id>>

NextPayload ==
    \/ CallPayload
    \/ \E e \in ServiceErrors : LoopCallRaises(e)
    \/ \E r \in PayloadResponses : ToolRound(r)
    \/ \E r \in PayloadResponses : FinalAnswer(r)
    \/ \E r \in PayloadResponses : FinalSynthesis(r)
    \/ \E e \in ServiceErrors : FinalSynthesisCallRaises(e)

SpecPayload == Init /\ [][NextPayload]_vars

\* The texts of the TypeError a dispatch with an invalid payload raises.
PayloadErrorTexts ==
    {"argument after ** must be a mapping", "got an unexpected keyword argument"}

\* C33: a tool request whose input payload is invalid for dispatch (not a
\* mapping, or a parameter the tool does not accept) gets a textual error
\* result under its own identifier; nothing is raised out of the loop by
\* it, and the orchestration goes on to its next completion call.
C33_InvalidInputIsSoftFailure ==
    \A k \in 1..Len(calls) :
        IsToolRound(k)
        => LET reqs == ToolRequests(replies[k].response.content)
               pos == AssistantTurnOf(k) + 1
           IN \A j \in 1..Len(reqs) :
                  reqs[j].input \in InvalidInputs
                  => /\ pos <= Len(messages)
                     /\ messages[pos].role = "user"
                     /\ j <= Len(messages[pos].content)
                     /\ messages[pos].content[j].type = "tool_result"
                     /\ messages[pos].content[j].tool_use_id = reqs[j].id
                     /\ Len(messages[pos].content[j].content) = 4
                     /\ SubSeq(messages[pos].content[j].content, 1, 3)
                        = <<"Error executing tool ", reqs[j].name, ": ">>
                     /\ messages[pos].content[j].content[4] \in PayloadErrorTexts
                     /\ \/ k < Len(calls) /\ calls[k + 1].messages[pos] = messages[pos]
                        \/ k = Len(calls) /\ pc \in {"loop", "final"}
                     /\ (Terminated /\ outcome.kind = "raise")
                        => /\ k < Len(calls)
                           /\ outcome.value \notin PayloadErrorTexts

\* C33 witness: a round requested a tool with a payload that is not a
\* mapping, its result is the error text, and the next completion call was
\* made with it and answered.
C33_Witness ==
    /\ Len(calls) >= 2 /\ IsToolRound(1)
    /\ ToolRequests(replies[1].response.content)[1].input = "not_a_mapping"
    /\ Contains(calls[2].messages[3].content[1].content, "Error executing tool ")
    /\ pc = "returned"

\* C33 second case: the payload names a parameter the tool does not
\* accept, in a round whose other request was served.
C33_WitnessUnknownParameter ==
    /\ Len(calls) >= 2 /\ IsToolRound(1)
    /\ Len(ToolRequests(replies[1].response.content)) = 2
    /\ ToolRequests(replies[1].response.content)[1].input = "mapping"
    /\ ToolRequests(replies[1].response.content)[2].input = "unexpected_parameter"
    /\ calls[2].messages[3].content[1].content = <<"tool output">>
    /\ Contains(calls[2].messages[3].content[2].content, "Error executing tool ")

\* C34: without a tool manager, generate_response makes exactly one
\* completion call whatever the stop reason of the response: a tool_use
\* response is the final answer (its first text block is returned, or the
\* extraction error is raised), nothing is executed and the conversation
\* stays the single user turn it started as.
C34_NoManagerOneCall ==
    (pc # "idle" /\ ~tool_manager.given)
    => /\ Len(calls) <= 1
       /\ pc # "final"
       /\ Terminated <=> Len(calls) = 1
       /\ Len(messages) = 1 /\ messages[1].role = "user"
       /\ executed = <<>>
       /\ Len(calls) = 1
          => /\ ~calls[1].final
             /\ calls[1].messages = messages
             /\ IsResponse(1)
                => LET content == replies[1].response.content
                   IN IF HasTextBlock(content)
                      THEN outcome = Returned(TextOf(content))
                      ELSE outcome.kind = "raise"

\* C34 witness: no manager, the tools offered, and a tool_use response
\* whose tool request precedes a text: the text was returned after one
\* call and the conversation is still the query alone.
C34_Witness ==
    /\ pc = "returned" /\ ~tool_manager.given /\ Truthy(tools)
    /\ Len(calls) = 1 /\ Len(messages) = 1
    /\ replies[1].response.stop_reason = "tool_use"
    /\ replies[1].response.content =
           <<ToolUseBlock("toolu_1", "search_course_content"), TextBlock("alpha")>>
    /\ outcome = Returned("alpha")

\* C34 second case: the tool_use response holds no text and the
\* extraction error was raised after the one call.
C34_WitnessExtractionError ==
    /\ pc = "raised" /\ ~tool_manager.given
    /\ Len(calls) = 1 /\ Len(messages) = 1
    /\ IsResponse(1)
    /\ replies[1].response.stop_reason = "tool_use"
    /\ replies[1].response.content =
           <<ToolUseBlock("toolu_1", "search_course_content")>>
    /\ outcome.kind = "raise"

\* Conversation a begins conversation b and b has more turns.
ProperPrefix(a, b) == Len(a) < Len(b) /\ SubSeq(b, 1, Len(a)) = a

\* C36: the conversation of one orchestration is append-only: the first
\* completion call receives exactly one user turn holding the query, and
\* the conversation sent with each later call extends the one sent with
\* the call before it, every earlier turn being kept as it was.
C36_ConversationAppendOnly ==
    /\ Len(calls) >= 1
       => /\ Len(calls[1].messages) = 1
          /\ calls[1].messages[1].role = "user"
          /\ calls[1].messages[1].content \in Queries
    /\ \A k \in 2..Len(calls) :
           ProperPrefix(calls[k - 1].messages, calls[k].messages)
    /\ Len(calls) >= 1
       => \/ messages = calls[Len(calls)].messages
          \/ ProperPrefix(calls[Len(calls)].messages, messages)

\* C36 witness: three calls were made, with one, three and five turns, the
\* last one being the final synthesis.
C36_Witness ==
    /\ Len(calls) = 3 /\ calls[3].final
    /\ Len(calls[1].messages) = 1
    /\ Len(calls[2].messages) = 3
    /\ Len(calls[3].messages) = 5
    /\ calls[3].messages[1] = calls[1].messages[1]

\* C37: the sources returned with a query's answer hold only attribution
\* records produced by tool executions performed during that query; a
\* record that was in the source trail before the query started, left by
\* an earlier query that failed before the trail was reset, is never
\* returned.
C37_SourcesOfThisQueryOnly ==
    [][(current # 0 /\ pc = "returned" /\ current' = 0)
       => \A i \in 1..Len(served'[current].sources) :
              \E e \in SearchesDone :
                  served'[current].sources[i]
                  = SourceRecord(current, executed[e])]_vars

\* The detail query_documents gives for an unexpected response format.
ResponseProcessingDetail ==
    <<"Response processing error: The AI returned an unexpected response format. Please try rephrasing your question.">>

\* generate_response ended with the error of text extraction in an
\* in-loop round: the last call was answered and is not the final one.
ExtractionFailedInLoop ==
    /\ pc = "raised" /\ Len(replies) >= 1
    /\ ~replies[Len(replies)].raised
    /\ ~calls[Len(calls)].final

\* C38: whenever generate_response fails with a text-extraction error in
\* a round before final synthesis, POST /api/query answers with status 500
\* and the "Response processing error" detail, not the generic one.
C38_ExtractionErrorDetail ==
    [][(current # 0 /\ ExtractionFailedInLoop /\ current' = 0)
       => /\ served'[current].status = "500"
          /\ served'[current].detail = ResponseProcessingDetail]_vars

\* The case of C38 the handler does serve as stated: the response held
\* blocks, none of them a text.
C38_NoTextBlockCase ==
    \E r \in Requests :
        /\ served[r].status = "500"
        /\ served[r].error = "ValueError"
        /\ served[r].detail = ResponseProcessingDetail

\* ------------------------------------------- calls made side by side
\* messages and round_num are assigned inside generate_response, so they
\* are fresh local variables of each call: call c finds them in its own
\* frame.
LocalsOnInstance(c) == "first"
Locals(c) == c

\* The other variables of the model that stay as they are while the
\* calls run; the log of the manager's operations and the source trail
\* belong to the one tool manager both calls are given.
single == <<pc, max_rounds, tools, tool_manager, round_num, messages, outcome,
            calls, replies, conversation_history, system_content,
            events, current, served, registry, sessions, session_id,
            exchanges, user_query>>

\* The frames after a step of call c.  own holds what the step leaves in
\* the call's position, log of requests, outcome, response at hand and
\* tool results; loc holds round_num, messages and the call that appended
\* each turn, written where the call keeps its locals.
FramesAfter(c, own, loc) ==
    [x \in Callers |->
        [pc |-> IF x = c THEN own.pc ELSE frames[x].pc,
         max_rounds |-> frames[x].max_rounds,
         sent |-> IF x = c THEN own.sent ELSE frames[x].sent,
         outcome |-> IF x = c THEN own.outcome ELSE frames[x].outcome,
         content |-> IF x = c THEN own.content ELSE frames[x].content,
         at |-> IF x = c THEN own.at ELSE frames[x].at,
         tool_results |-> IF x = c THEN own.tool_results
                          ELSE frames[x].tool_results,
         round_num |-> IF x = Locals(c) THEN loc.round_num
                       ELSE frames[x].round_num,
         messages |-> IF x = Locals(c) THEN loc.messages
                      ELSE frames[x].messages,
         authors |-> IF x = Locals(c) THEN loc.authors
                     ELSE frames[x].authors]]

\* The request call c sends: the conversation it reads from its locals,
\* with the call that appended each turn and the round it is in.
SentBy(c, request) ==
    [messages |-> request.messages, final |-> request.final,
     authors |-> frames[Locals(c)].authors,
     round |-> frames[Locals(c)].round_num]

\* The position of the first tool_use block at or after position i, 0
\* when there is none.
NextToolUse(content, i) ==
    LET found == {j \in i..Len(content) : content[j].type = "tool_use"}
    IN IF found = {} THEN 0
       ELSE CHOOSE j \in found : \A k \in found : j <= k

\* The operations of call c on the tool manager, marked with the call.
ByCaller(ops, c) ==
    [i \in 1..Len(ops) |->
        [op |-> ops[i].op, round |-> ops[i].round, id |-> ops[i].id,
         name |-> ops[i].name, raised |-> ops[i].raised, caller |-> c]]

\* generate_response is entered by caller c with the tools and a working
\* manager: the conversation starts with the query of c.
EnterCall(c) ==
    /\ frames[c].pc = "idle"
    /\ \E b \in Budgets :
           frames' = [FramesAfter(c, [frames[c] EXCEPT !.pc = "loop"],
                                  [round_num |-> 1,
                                   messages |-> <<[role |-> "user",
                                                   content |-> QueryOf(c)]>>,
                                   authors |-> <<c>>])
                      EXCEPT ![c].max_rounds = b]
    /\ UNCHANGED <<single, executed, trail>>

\* The completion call of an in-loop round of call c raises.
CallLoopRaises(c, exc) ==
    /\ frames[c].pc = "loop"
    /\ LET loc == frames[Locals(c)]
           request == LoopRequest(loc.messages, AllTools, <<SYSTEM_PROMPT>>)
       IN frames' = FramesAfter(c,
                        [frames[c] EXCEPT !.pc = "raised",
                                          !.sent = Append(@, SentBy(c, request)),
                                          !.outcome = Raised(exc)],
                        loc)
    /\ UNCHANGED <<single, executed, trail>>

\* The completion call of a round of call c returns a response that is
\* handled as a tool round: the assistant turn is appended and the call
\* goes on to execute the tools.
CallToolRound(c, response) ==
    /\ frames[c].pc = "loop"
    /\ UsedTools(response, WorkingManager)
    /\ LET loc == frames[Locals(c)]
           request == LoopRequest(loc.messages, AllTools, <<SYSTEM_PROMPT>>)
       IN frames' = FramesAfter(c,
                        [frames[c] EXCEPT !.pc = "tools",
                                          !.sent = Append(@, SentBy(c, request)),
                                          !.content = response.content,
                                          !.at = 1,
                                          !.tool_results = <<>>],
                        [loc EXCEPT !.messages =
                                        Append(@, [role |-> "assistant",
                                                   content |-> response.content]),
                                    !.authors = Append(@, c)])
    /\ UNCHANGED <<single, executed, trail>>

\* _execute_tools of call c dispatches the next tool_use block of the
\* response to the tool manager and keeps its result.
CallExecuteTool(c) ==
    /\ frames[c].pc = "tools"
    /\ NextToolUse(frames[c].content, frames[c].at) # 0
    /\ LET i == NextToolUse(frames[c].content, frames[c].at)
           block == <<frames[c].content[i]>>
           ops == DispatchesFrom(block, WorkingManager,
                                 frames[Locals(c)].round_num, 1)
       IN /\ frames' = FramesAfter(c,
                           [frames[c] EXCEPT !.at = i + 1,
                                             !.tool_results =
                                                 @ \o ExecuteTools(block,
                                                                   WorkingManager)],
                           frames[Locals(c)])
          /\ executed' = executed \o ByCaller(ops, c)
          /\ trail' = ApplyManagerOps(trail, ops, c)
    /\ UNCHANGED single

\* The tool round of call c ends once every tool_use block has been
\* dispatched: the tool-result turn is appended when there are results,
\* then the next round or the end of the range.
CallEndRound(c) ==
    /\ frames[c].pc = "tools"
    /\ NextToolUse(frames[c].content, frames[c].at) = 0
    /\ LET loc == frames[Locals(c)]
           more == HasNextRound(loc.round_num, frames[c].max_rounds)
           results == frames[c].tool_results
       IN frames' = FramesAfter(c,
                        [frames[c] EXCEPT !.pc = IF more THEN "loop" ELSE "final",
                                          !.content = <<>>, !.at = 0,
                                          !.tool_results = <<>>],
                        [round_num |-> IF more THEN loc.round_num + 1
                                       ELSE loc.round_num,
                         messages |-> IF results # <<>>
                                      THEN Append(loc.messages,
                                                  [role |-> "user",
                                                   content |-> results])
                                      ELSE loc.messages,
                         authors |-> IF results # <<>>
                                     THEN Append(loc.authors, c)
                                     ELSE loc.authors])
    /\ UNCHANGED <<single, executed, trail>>

\* An in-loop round of call c whose response is the final answer.
CallFinalAnswer(c, response) ==
    /\ frames[c].pc = "loop"
    /\ ~UsedTools(response, WorkingManager)
    /\ LET loc == frames[Locals(c)]
           request == LoopRequest(loc.messages, AllTools, <<SYSTEM_PROMPT>>)
           out == LoopAnswerOutcome(response)
       IN frames' = FramesAfter(c,
                        [frames[c] EXCEPT !.pc = IF out.kind = "return"
                                                 THEN "returned" ELSE "raised",
                                          !.sent = Append(@, SentBy(c, request)),
                                          !.outcome = out],
                        loc)
    /\ UNCHANGED <<single, executed, trail>>

\* The final synthesis of call c: the call returns a response or raises.
CallFinalSynthesis(c, reply) ==
    /\ frames[c].pc = "final"
    /\ LET loc == frames[Locals(c)]
           request == FinalRequest(loc.messages, <<SYSTEM_PROMPT>>)
           out == FinalSynthesisOutcome(reply)
       IN frames' = FramesAfter(c,
                        [frames[c] EXCEPT !.pc = IF out.kind = "return"
                                                 THEN "returned" ELSE "raised",
                                          !.sent = Append(@, SentBy(c, request)),
                                          !.outcome = out],
                        loc)
    /\ UNCHANGED <<single, executed, trail>>

FinalReplies ==
    {[raised |-> FALSE, response |-> r] : r \in ApiResponses}
    \cup {[raised |-> TRUE, exc |-> e] : e \in ServiceErrors}

NextCalls ==
    \/ \E c \in Callers : EnterCall(c)
    \/ \E c \in Callers, e \in ServiceErrors : CallLoopRaises(c, e)
    \/ \E c \in Callers, r \in ApiResponses : CallToolRound(c, r)
    \/ \E c \in Callers : CallExecuteTool(c)
    \/ \E c \in Callers : CallEndRound(c)
    \/ \E c \in Callers, r \in ApiResponses : CallFinalAnswer(c, r)
    \/ \E c \in Callers, r \in FinalReplies : CallFinalSynthesis(c, r)

SpecCalls == Init /\ [][NextCalls]_vars

\* C35: two generate_response calls interleaved on one generator share no
\* orchestration state: each has its own conversation and round counter.
\* Every conversation a call sends begins with its own query and holds
\* only turns that call appended, and its k-th in-loop request is sent in
\* its own round k, whatever the other call has done in between, be it
\* between two rounds or in the middle of a tool round.
C35_CallsShareNoState ==
    \A c \in Callers :
        /\ \A k \in 1..Len(frames[c].sent) :
               LET s == frames[c].sent[k]
               IN /\ s.messages[1] = [role |-> "user", content |-> QueryOf(c)]
                  /\ \A i \in 1..Len(s.authors) : s.authors[i] = c
                  /\ Len(s.authors) = Len(s.messages)
                  /\ ~s.final => s.round = k
                  /\ k > 1 => ProperPrefix(frames[c].sent[k - 1].messages,
                                           s.messages)
        /\ frames[c].pc \in {"loop", "tools", "final"}
           => /\ frames[c].round_num = IF frames[c].pc = "loop"
                                       THEN Len(frames[c].sent) + 1
                                       ELSE Len(frames[c].sent)
              /\ frames[c].messages[1]
                 = [role |-> "user", content |-> QueryOf(c)]
              /\ \A i \in 1..Len(frames[c].authors) : frames[c].authors[i] = c

\* C35 witness: the first call is in the middle of its tool round, the
\* assistant turn appended and its tool dispatched but the result turn
\* not yet appended, while the second call has entered, run a whole tool
\* round of its own on the same manager and moved to its second round.
C35_Witness ==
    /\ frames["first"].pc = "tools" /\ frames["second"].pc = "loop"
    /\ Len(frames["first"].sent) = 1 /\ Len(frames["second"].sent) = 1
    /\ Len(frames["first"].messages) = 2 /\ Len(frames["second"].messages) = 3
    /\ frames["first"].messages[1].content # frames["second"].messages[1].content
    /\ frames["first"].round_num = 1 /\ frames["second"].round_num = 2
    /\ Len(executed) = 2
    /\ executed[1].caller = "first" /\ executed[2].caller = "second"

====
